---- MODULE Spec2Model ----
(***************************************************************************)
(* Continuous collector of GhostDraft's data-analyzer: the state machine   *)
(* (StateMachine), the warm file counter (WarmFileCounter) and the warm    *)
(* directory lock (WarmLock), modelled at the granularity of their atomic  *)
(* operations and mutex acquisitions, with the goroutines that call them.  *)
(***************************************************************************)
EXTENDS Integers, Sequences, FiniteSets, TLC

(* ------------------------------ bounds --------------------------------- *)

\* goroutines calling the state machine's operations concurrently
NumCallers == 2

\* goroutines racing on TryTransitionToReducing
NumRacers == 3

\* goroutines calling the warm file counter concurrently
NumCounterThreads == 2

\* the counter's threshold (NewWarmFileCounter's first argument)
Threshold == 2

\* Increment is not called any more once the count has this value
MaxCount == 3

\* Reset is called at most this many times
MaxResets == 2

\* goroutines calling the warm lock concurrently
NumLockThreads == 3

\* RLock and Lock are called at most this many times in all
MaxLockCalls == 5

\* I/O errors that strike the archiver in one behaviour
MaxFaults == 2

\* calls of ArchiveWarmToCold in one behaviour
MaxArchiveCalls == 2

\* files of each kind the warm directory starts with
MaxFiles == 2

\* rotations in one behaviour
MaxRotations == 2

\* lines the warm files have in common, before each file's own last line
MaxLen == 2

\* distinct lines
NumLines == 2

\* WriteLine calls in one behaviour
MaxRecords == 2

\* FlushAndRotate calls in one behaviour
MaxFlushes == 1

\* seconds the wall clock advances in one behaviour
MaxClock == 1

\* matches per hot file before the rotator rotates by itself
MaxMatchesPerFile == 2

\* seconds after which MatchComplete rotates a hot file
RotationInterval == 1

\* Push calls in one behaviour
MaxPushes == 3

\* Start and Wait calls in one behaviour
MaxPusherCalls == 3

\* capacity of the pusher's queue
BufferSize == 1

\* calls of PushAggData
MaxSinkPushes == 2

\* matches of one key in one AggData
MaxDelta == 1

\* candidates the key provider hands over
MaxCandidates == 2

\* players in the producer queue when the key expires
MaxQueue == 2

\* the longest timeout given to WaitForState, in seconds
MaxTimeout == 1

\* calls of AggregateWarmFiles in one behaviour
MaxAggregateCalls == 2

\* lines of the warm file whose matchups are computed
MaxLines == 3

\* lines of the warm files that are aggregated together with others
MaxAggLines == 4

Max(a, b) == IF a >= b THEN a ELSE b

\* the goroutines of a session: one trigger source per subsystem, the signal
\* handler and the orchestrator
Rotation == 1

ErrorHandler == 2

SignalHandler == 3

Orch == 4

NumSessionThreads == 4

NumThreads ==
    Max(Max(Max(NumCallers, NumRacers), Max(NumCounterThreads, NumLockThreads)),
        NumSessionThreads)

Threads == 1..NumThreads

Callers == 1..NumCallers

Racers == 1..NumRacers

CounterThreads == 1..NumCounterThreads

LockThreads == 1..NumLockThreads

Triggers == {Rotation, ErrorHandler, SignalHandler}

NoThread == 0

(* ------------------------------ state ---------------------------------- *)

VARIABLES
    state,      \* StateMachine.state (atomic.Int32)
    smMu,       \* holder of StateMachine.mu, NoThread when free
    callback,   \* TRUE when StateMachine.callback is set
    sm,         \* per goroutine: the frame of its call into the state machine
    cbLast,     \* arguments <<from, to>> of the latest callback invocation
    smErr,      \* the error most recently returned by TransitionTo
    count,      \* WarmFileCounter.count (atomic.Int64)
    fired,      \* WarmFileCounter.fired (atomic.Bool)
    wcMu,       \* holder of WarmFileCounter.mu, NoThread when free
    wcCallback, \* TRUE when WarmFileCounter.callback is not nil
    wc,         \* per goroutine: the frame of its call into the counter
    hist,       \* what an observer of the counter has seen (calls, invocations)
    readerCount,        \* WarmLock.mu (sync.RWMutex): readers, minus rwmutexMaxReaders with a writer
    readerWait,         \* WarmLock.mu: departing readers the writer waits for
    rwW,                \* WarmLock.mu: holder of the writers' mutex, NoThread when free
    writerSem,          \* WarmLock.mu: semaphore the writer sleeps on
    readerSem,          \* WarmLock.mu: semaphore the readers sleep on
    readLockCount,      \* WarmLock.readLockCount
    activeReadLocks,    \* WarmLock.activeReadLocks (atomic.Int64)
    exclusiveLockCount, \* WarmLock.exclusiveLockCount
    lk,                 \* per goroutine: the frame of its call into the lock, and what it holds
    lkHist,             \* what an observer of the lock has seen (calls, who waited when)
    orch,       \* the orchestrator: its stage, the reduce request, the latches
    trig,       \* per trigger goroutine: the event it is handling
    warm,       \* the warm directory: file name -> content (lines)
    cold,       \* the cold directory: name of the original -> gzip file <name>.gz
    ar,         \* the frame of the call of ArchiveWarmToCold / archiveFile
    arHist,     \* what an observer of the archiver has seen (originals, faults, results)
    job,        \* per goroutine: the rotation or the reduce it is carrying out
    rdHist,     \* what an observer of the reduces has seen (enumerated files, rotations)
    hot,        \* the hot directory: file name -> content (lines)
    rot,        \* FileRotator: its mutex, the open hot file, the match count
    clock,      \* the wall clock, in seconds
    fw,         \* per goroutine: the frame of its call into the rotator
    rotHist,    \* what an observer of the rotator has seen (records, rotations, results)
    tp,         \* TursoPusher: started, mu, pushChan (items, closed), wg
    ctxDone,    \* TRUE when the context given to Start and Push is cancelled
    wk,         \* the processLoop goroutines launched so far
    pt,         \* per goroutine: the frame of its call of Start, Push or Wait
    tpHist,     \* what an observer of the pusher has seen (accepted, delivered)
    db,         \* InMemoryPusher.db: table -> key -> row (wins, matches)
    agg,        \* the AggData the caller of PushAggData holds
    sk,         \* the calls of PushAggData so far and the latest result
    sess,       \* the session state: the two bloom filters and the producer queue
    kp,         \* the key provider: the latest candidate, the candidates so far
    wt,         \* the frame of the call of WaitForState; whether it holds condMu
    tm,         \* the timer goroutines launched by WaitForState so far
    ag          \* the frame of the call of AggregateWarmFiles / aggregateFile

smVars == <<state, smMu, callback, sm, cbLast, smErr>>

wcVars == <<count, fired, wcMu, wcCallback, wc, hist>>

wlVars == <<readerCount, readerWait, rwW, writerSem, readerSem, readLockCount,
           activeReadLocks, exclusiveLockCount, lk, lkHist>>

orchVars == <<orch, trig>>

fsVars == <<warm, cold>>

arVars == <<ar, arHist>>

rdVars == <<job, rdHist>>

rotVars == <<hot, rot, clock, fw, rotHist>>

tpVars == <<tp, ctxDone, wk, pt, tpHist>>

skVars == <<db, agg, sk>>

kwVars == <<sess, kp>>

wtVars == <<wt, tm>>

agVars == <<ag>>

\* the storage side: directories, archiver, rotations and reduces
extVars == <<fsVars, arVars, rdVars, rotVars, tpVars, skVars, kwVars, wtVars, agVars>>

vars == <<smVars, wcVars, wlVars, orchVars, extVars>>

\* what an operation of one component leaves alone
nonSM == <<wcVars, wlVars, orchVars, extVars>>

nonWC == <<smVars, wlVars, orchVars, extVars>>

nonWL == <<smVars, wcVars, orchVars, extVars>>

\* what the steps of the archiver leave alone
nonAR == <<smVars, wcVars, wlVars, orchVars, rdVars, rotVars, tpVars, skVars, kwVars, wtVars, agVars>>

\* what the steps of a rotation or of a reduce leave alone, the lock and the
\* directories apart
nonRD == <<smVars, wcVars, orchVars, rotVars, tpVars, skVars, kwVars, wtVars, agVars>>

\* what the steps of the rotator leave alone, the warm directory apart
nonROT == <<smVars, wcVars, wlVars, orchVars, arVars, rdVars, cold, tpVars, skVars, kwVars, wtVars, agVars>>

\* what the steps of the pusher leave alone
nonTP == <<smVars, wcVars, wlVars, orchVars, fsVars, arVars, rdVars, rotVars, skVars, kwVars, wtVars, agVars>>

\* what the steps of the sink leave alone
nonSK == <<smVars, wcVars, wlVars, orchVars, fsVars, arVars, rdVars, rotVars, tpVars, kwVars, wtVars, agVars>>

\* what the steps of the key flow leave alone, the machine, the counter and
\* the orchestrator apart
nonKW == <<fsVars, arVars, rdVars, rotVars, tpVars, skVars, wtVars, agVars>>

\* what the steps of WaitForState and of its timer goroutines leave alone
nonWT == <<smVars, wcVars, wlVars, orchVars, fsVars, arVars, rdVars, rotVars, tpVars, skVars, kwVars, agVars>>

\* what a step of the state machine leaves alone, the waiters apart
nonSMW == <<wcVars, wlVars, orchVars, fsVars, arVars, rdVars, rotVars, tpVars, skVars, kwVars, agVars>>

(* --------------------------- StateMachine ------------------------------ *)

StateStartup == "STARTUP"
StateCollecting == "COLLECTING"
StateReducing == "REDUCING"
StatePushing == "PUSHING"
StateWaitingForKey == "WAITING_FOR_KEY"
StateFreshRestart == "FRESH_RESTART"
StateShutdown == "SHUTDOWN"

States ==
    {StateStartup, StateCollecting, StateReducing, StatePushing,
     StateWaitingForKey, StateFreshRestart, StateShutdown}

\* variant: SHUTDOWN may be left again
validTransitionsLeaveShutdown ==
    [from \in States |->
        CASE from = StateStartup       -> {StateCollecting, StateShutdown}
          [] from = StateCollecting    -> {StateReducing, StateShutdown}
          [] from = StateReducing      -> {StatePushing, StateShutdown}
          [] from = StatePushing       -> {StateCollecting, StateWaitingForKey, StateShutdown}
          [] from = StateWaitingForKey -> {StateFreshRestart, StateShutdown}
          [] from = StateFreshRestart  -> {StateStartup, StateShutdown}
          [] from = StateShutdown      -> {StateStartup}]

\* validTransitions[from] is the set of targets allowed from `from`
validTransitions ==
    [from \in States |->
        CASE from = StateStartup       -> {StateCollecting, StateShutdown}
          [] from = StateCollecting    -> {StateReducing, StateShutdown}
          [] from = StateReducing      -> {StatePushing, StateShutdown}
          [] from = StatePushing       -> {StateCollecting, StateWaitingForKey, StateShutdown}
          [] from = StateWaitingForKey -> {StateFreshRestart, StateShutdown}
          [] from = StateFreshRestart  -> {StateStartup, StateShutdown}
          [] from = StateShutdown      -> {}]

isValidTransition(from, to) ==
    IF from = to THEN FALSE
    ELSE IF from \notin DOMAIN validTransitions THEN FALSE
    ELSE to \in validTransitions[from]

\* variant: the loaded state is not tested
CanEnterReducingAlways(from) == from \in States

\* variant: a reduce already requested does not stop a second one
CanEnterReducingAgain(from) == from \in {StateCollecting, StateReducing}

\* the test of TryTransitionToReducing on the state it loaded
CanEnterReducing(from) == from = StateCollecting

NoErr == <<>>

\* variant: the fields are filled the wrong way round
InvalidTransitionErrorSwapped(from, to) == <<to, from>>

\* &InvalidTransitionError{From: from, To: to}
InvalidTransitionError(from, to) == <<from, to>>

IdleFrame ==
    [pc |-> "idle", op |-> "none", to |-> "none", from |-> "none", ret |-> "none"]

\* the frame of a call that has returned: its result, until the goroutine's next call
Returned(ret) == [IdleFrame EXCEPT !.ret = ret]

\* the frame of the WaitForState call: no call yet; condMu is free
NoWait ==
    [pc |-> "idle", target |-> "none", deadline |-> 0, locked |-> FALSE,
     notified |-> FALSE, ret |-> "none"]

\* sync.NewCond(&sm.condMu): nobody waits, no timer goroutine exists
NewCond ==
    /\ wt = NoWait
    /\ tm = <<>>

\* variant: a Broadcast that wakes nobody
BroadcastNone(w) == w

\* sm.cond.Broadcast(): wakes the goroutine that is inside cond.Wait(); a
\* goroutine that has not yet entered cond.Wait() is not on the notify list and
\* is not woken later by this Broadcast
Broadcast(w) == IF w.pc = "Parked" THEN [w EXCEPT !.notified = TRUE] ELSE w

\* NewStateMachine
SMInit ==
    /\ state = StateStartup
    /\ smMu = NoThread
    /\ callback = FALSE
    /\ sm = [t \in Threads |-> IdleFrame]
    /\ cbLast = <<>>
    /\ smErr = NoErr
    /\ NewCond

\* variant: the operations do not take sm.mu
MuNotTaken(t) == t \in Threads

\* sm.mu.Lock(): the mutex is free
MuFree(t) == smMu = NoThread

\* a goroutine enters TransitionTo(to) and passes sm.mu.Lock(); a goroutine still
\* blocked in Lock has had no effect yet
CallTransitionTo(t, to) ==
    /\ sm[t].pc = "idle"
    /\ MuFree(t)
    /\ smMu' = t
    /\ sm' = [sm EXCEPT ![t] = [IdleFrame EXCEPT !.pc = "Load", !.op = "TransitionTo", !.to = to]]
    /\ UNCHANGED <<state, callback, cbLast, smErr>> /\ UNCHANGED nonSM

\* a goroutine enters TryTransitionToReducing() and passes sm.mu.Lock()
CallTryTransitionToReducing(t) ==
    /\ sm[t].pc = "idle"
    /\ MuFree(t)
    /\ smMu' = t
    /\ sm' = [sm EXCEPT ![t] = [IdleFrame EXCEPT !.pc = "Load", !.op = "Try", !.to = StateReducing]]
    /\ UNCHANGED <<state, callback, cbLast, smErr>> /\ UNCHANGED nonSM

\* from := State(sm.state.Load())
SMLoad(t) ==
    /\ sm[t].pc = "Load"
    /\ sm' = [sm EXCEPT ![t].from = state, ![t].pc = "Check"]
    /\ UNCHANGED <<state, smMu, callback, cbLast, smErr>> /\ UNCHANGED nonSM

\* whether the call goes on to store its target
Accepts(f) ==
    IF f.op = "Try" THEN CanEnterReducing(f.from)
    ELSE isValidTransition(f.from, f.to)

\* the early return: TransitionTo returns the error, Try returns false;
\* the deferred sm.mu.Unlock() runs
SMReject(t) ==
    /\ sm[t].pc = "Check"
    /\ ~Accepts(sm[t])
    /\ sm' = [sm EXCEPT ![t] = Returned(IF sm[t].op = "Try" THEN "false" ELSE "err")]
    /\ smErr' = IF sm[t].op = "Try" THEN smErr
                ELSE InvalidTransitionError(sm[t].from, sm[t].to)
    /\ smMu' = NoThread
    /\ UNCHANGED <<state, callback, cbLast>> /\ UNCHANGED nonSM

\* sm.state.Store(int32(to))
SMStore(t) ==
    /\ sm[t].pc = "Check"
    /\ Accepts(sm[t])
    /\ state' = sm[t].to
    /\ sm' = [sm EXCEPT ![t].pc = "Notify"]
    /\ UNCHANGED <<smMu, callback, cbLast, smErr>> /\ UNCHANGED nonSM

\* sm.cond.Broadcast(), sm.callback(from, to) when set, then return and the
\* deferred Unlock
SMNotify(t) ==
    /\ sm[t].pc = "Notify"
    /\ IF callback
       THEN cbLast' = <<sm[t].from, sm[t].to>>
       ELSE UNCHANGED cbLast
    /\ sm' = [sm EXCEPT ![t] = Returned(IF sm[t].op = "Try" THEN "true" ELSE "nil")]
    /\ smMu' = NoThread
    /\ wt' = Broadcast(wt)
    /\ UNCHANGED <<state, callback, smErr, tm>> /\ UNCHANGED nonSMW

\* OnTransition(callback): sets the callback under sm.mu
OnTransition(t) ==
    /\ sm[t].pc = "idle"
    /\ smMu = NoThread
    /\ ~callback
    /\ callback' = TRUE
    /\ UNCHANGED <<state, smMu, sm, cbLast, smErr>> /\ UNCHANGED nonSM

\* the steps inside a call, common to every scenario
SMStep(t) ==
    \/ SMLoad(t)
    \/ SMReject(t)
    \/ SMStore(t)
    \/ SMNotify(t)

(* ------------------------ StateMachine.WaitForState -------------------- *)

Timeouts == 0..MaxTimeout

\* WaitForState returns: the deferred sm.condMu.Unlock() runs
WaitReturned(w, ret) == [w EXCEPT !.pc = "idle", !.locked = FALSE, !.ret = ret]

\* deadline := time.Now().Add(timeout); sm.condMu.Lock()
WFCall(target, timeout) ==
    /\ wt.pc = "idle"
    /\ wt.ret = "none"
    /\ clock + timeout <= MaxClock
    /\ wt' = [NoWait EXCEPT !.pc = "Check", !.target = target,
                            !.deadline = clock + timeout, !.locked = TRUE]
    /\ UNCHANGED tm /\ UNCHANGED nonWT

\* for sm.Current() != target { ... }; return true
WFCheck ==
    /\ wt.pc = "Check"
    /\ wt' = IF state = wt.target
             THEN WaitReturned(wt, "true")
             ELSE [wt EXCEPT !.pc = "Until"]
    /\ UNCHANGED tm /\ UNCHANGED nonWT

\* remaining := time.Until(deadline); if remaining <= 0 { return false };
\* otherwise the timer goroutine is launched with its own done channel
WFUntil ==
    /\ wt.pc = "Until"
    /\ IF wt.deadline - clock <= 0
       THEN /\ wt' = WaitReturned(wt, "false")
            /\ UNCHANGED tm
       ELSE /\ wt' = [wt EXCEPT !.pc = "Wait"]
            /\ tm' = Append(tm, "sleep")
    /\ UNCHANGED nonWT

\* sm.cond.Wait() begins: the goroutine joins the notify list and releases
\* condMu
WFWait ==
    /\ wt.pc = "Wait"
    /\ wt' = [wt EXCEPT !.pc = "Parked", !.locked = FALSE, !.notified = FALSE]
    /\ UNCHANGED tm /\ UNCHANGED nonWT

\* sm.cond.Wait() ends: a Broadcast has woken the goroutine, it takes condMu
WFWake ==
    /\ wt.pc = "Parked"
    /\ wt.notified
    /\ wt' = [wt EXCEPT !.pc = "Select", !.locked = TRUE, !.notified = FALSE]
    /\ UNCHANGED tm /\ UNCHANGED nonWT

\* select { case <-done: if sm.Current() != target { return false }; default: }
\* on the done channel of the timer goroutine of this round of the loop
WFSelect ==
    /\ wt.pc = "Select"
    /\ wt' = IF tm[Len(tm)] = "exited" /\ state # wt.target
             THEN WaitReturned(wt, "false")
             ELSE [wt EXCEPT !.pc = "Check"]
    /\ UNCHANGED tm /\ UNCHANGED nonWT

\* timer goroutine i: time.Sleep(remaining) is over, sm.cond.Broadcast()
TMBroadcast(i) ==
    /\ tm[i] = "sleep"
    /\ clock >= wt.deadline
    /\ tm' = [tm EXCEPT ![i] = "close"]
    /\ wt' = Broadcast(wt)
    /\ UNCHANGED nonWT

\* timer goroutine i: close(done)
TMClose(i) ==
    /\ tm[i] = "close"
    /\ tm' = [tm EXCEPT ![i] = "exited"]
    /\ UNCHANGED wt /\ UNCHANGED nonWT

(* -------------------------- WarmFileCounter ---------------------------- *)

WCIdle == [pc |-> "idle", op |-> "none", newCount |-> 0, stale |-> FALSE]

NoHist ==
    [fires |-> 0,      \* callback invocations since fired was last set to false
     invoked |-> 0,    \* callback invocations in all
     crossed |-> 0,    \* times the count went from threshold-1 to threshold
     reached |-> FALSE, \* an add since the last zeroing gave a value >= threshold
     counted |-> 0,    \* returned Increments whose add came after the last zeroing
     returned |-> 0,   \* Increments returned since the last Reset returned
     resets |-> 0]     \* Reset calls so far

\* NewWarmFileCounter(threshold, callback), not yet used
NewWarmFileCounter(cb) ==
    /\ count = 0
    /\ fired = FALSE
    /\ wcMu = NoThread
    /\ wcCallback = cb
    /\ wc = [t \in Threads |-> WCIdle]
    /\ hist = NoHist

\* newCount >= c.threshold
ReachedThreshold(newCount) == newCount >= Threshold

\* Increment: newCount := c.count.Add(1)
WCAdd(t) ==
    /\ wc[t].pc = "idle"
    /\ count < MaxCount
    /\ count' = count + 1
    /\ wc' = [wc EXCEPT ![t] = [pc |-> "Check", op |-> "Increment",
                                 newCount |-> count + 1, stale |-> FALSE]]
    /\ hist' = [hist EXCEPT !.crossed = IF count + 1 = Threshold THEN @ + 1 ELSE @,
                            !.reached = @ \/ ReachedThreshold(count + 1)]
    /\ UNCHANGED <<fired, wcMu, wcCallback>>
    /\ UNCHANGED nonWC

\* the return of Increment
WCReturnInc(t) ==
    /\ wc' = [wc EXCEPT ![t] = WCIdle]
    /\ hist' = [hist EXCEPT !.counted = IF wc[t].stale THEN @ ELSE @ + 1,
                            !.returned = @ + 1]

\* Increment: if newCount >= c.threshold && !c.fired.Load(), false: return
WCCheckSkip(t) ==
    /\ wc[t].pc = "Check"
    /\ ~(ReachedThreshold(wc[t].newCount) /\ ~fired)
    /\ WCReturnInc(t)
    /\ UNCHANGED <<count, fired, wcMu, wcCallback>>
    /\ UNCHANGED nonWC

\* Increment: if newCount >= c.threshold && !c.fired.Load(), true: go on to c.mu.Lock()
WCCheckPass(t) ==
    /\ wc[t].pc = "Check"
    /\ ReachedThreshold(wc[t].newCount) /\ ~fired
    /\ wc' = [wc EXCEPT ![t].pc = "Lock"]
    /\ UNCHANGED <<count, fired, wcMu, wcCallback, hist>>
    /\ UNCHANGED nonWC

\* c.mu.Lock() of Increment
WCLock(t) ==
    /\ wc[t].pc = "Lock"
    /\ wcMu = NoThread
    /\ wcMu' = t
    /\ wc' = [wc EXCEPT ![t].pc = "Recheck"]
    /\ UNCHANGED <<count, fired, wcCallback, hist>>
    /\ UNCHANGED nonWC

\* Increment under the lock: if !c.fired.Load() { c.fired.Store(true) ...
WCRecheck(t) ==
    /\ wc[t].pc = "Recheck"
    /\ IF ~fired
       THEN fired' = TRUE /\ wc' = [wc EXCEPT ![t].pc = "Callback"]
       ELSE fired' = fired /\ wc' = [wc EXCEPT ![t].pc = "Unlock"]
    /\ UNCHANGED <<count, wcMu, wcCallback, hist>>
    /\ UNCHANGED nonWC

\* ... if c.callback != nil { c.callback() } }, the callback being opaque here
WCCallback(t) ==
    /\ wc[t].pc = "Callback"
    /\ hist' = IF wcCallback
               THEN [hist EXCEPT !.fires = @ + 1, !.invoked = @ + 1]
               ELSE hist
    /\ wc' = [wc EXCEPT ![t].pc = "Unlock"]
    /\ UNCHANGED <<count, fired, wcMu, wcCallback>>
    /\ UNCHANGED nonWC

\* c.mu.Unlock() of Increment, and its return
WCUnlock(t) ==
    /\ wc[t].pc = "Unlock"
    /\ wcMu' = NoThread
    /\ WCReturnInc(t)
    /\ UNCHANGED <<count, fired, wcCallback>>
    /\ UNCHANGED nonWC

\* variant: a mutex that its holder can take again
WCResetLockReentrant(t) ==
    /\ wc[t].pc = "idle"
    /\ hist.resets < MaxResets
    /\ wcMu' = t
    /\ wc' = [wc EXCEPT ![t] = [WCIdle EXCEPT !.pc = "StoreCount", !.op = "Reset"]]
    /\ hist' = [hist EXCEPT !.resets = @ + 1]
    /\ UNCHANGED <<count, fired, wcCallback>>
    /\ UNCHANGED nonWC

\* Reset: c.mu.Lock()
WCResetLock(t) ==
    /\ wc[t].pc = "idle"
    /\ hist.resets < MaxResets
    /\ wcMu = NoThread
    /\ wcMu' = t
    /\ wc' = [wc EXCEPT ![t] = [WCIdle EXCEPT !.pc = "StoreCount", !.op = "Reset"]]
    /\ hist' = [hist EXCEPT !.resets = @ + 1]
    /\ UNCHANGED <<count, fired, wcCallback>>
    /\ UNCHANGED nonWC

ResetValueKeep(c) == c

\* the value Reset stores in count
ResetValue(c) == 0

\* Reset: c.count.Store(0); the Increments in flight have added before it
WCResetCount(t) ==
    /\ wc[t].pc = "StoreCount"
    /\ count' = ResetValue(count)
    /\ wc' = [u \in Threads |->
                IF u = t THEN [wc[u] EXCEPT !.pc = "StoreFired"]
                ELSE IF wc[u].op = "Increment" THEN [wc[u] EXCEPT !.stale = TRUE]
                ELSE wc[u]]
    /\ hist' = [hist EXCEPT !.counted = 0, !.reached = FALSE]
    /\ UNCHANGED <<fired, wcMu, wcCallback>>
    /\ UNCHANGED nonWC

\* Reset: c.fired.Store(false)
WCResetFired(t) ==
    /\ wc[t].pc = "StoreFired"
    /\ fired' = FALSE
    /\ wc' = [wc EXCEPT ![t].pc = "ResetUnlock"]
    /\ hist' = [hist EXCEPT !.fires = 0]
    /\ UNCHANGED <<count, wcMu, wcCallback>>
    /\ UNCHANGED nonWC

\* Reset: c.mu.Unlock(), and its return
WCResetUnlock(t) ==
    /\ wc[t].pc = "ResetUnlock"
    /\ wcMu' = NoThread
    /\ wc' = [wc EXCEPT ![t] = WCIdle]
    /\ hist' = [hist EXCEPT !.returned = 0]
    /\ UNCHANGED <<count, fired, wcCallback>>
    /\ UNCHANGED nonWC

\* Count()
Count == count

\* the frame of a call the callback makes on the counter: the calling goroutine
\* is in it while its own frame waits inside c.callback()
Inner == NumThreads

\* c.callback() calls c.Increment(): newCount := c.count.Add(1)
CBIncrement(t) ==
    /\ wc[t].pc = "Callback"
    /\ wcCallback
    /\ count < MaxCount
    /\ count' = count + 1
    /\ wc' = [wc EXCEPT ![t].pc = "Nested",
                        ![Inner] = [pc |-> "Check", op |-> "Increment",
                                    newCount |-> count + 1, stale |-> FALSE]]
    /\ hist' = [hist EXCEPT !.crossed = IF count + 1 = Threshold THEN @ + 1 ELSE @,
                            !.reached = @ \/ ReachedThreshold(count + 1)]
    /\ UNCHANGED <<fired, wcMu, wcCallback>>
    /\ UNCHANGED nonWC

\* c.callback() calls c.Reset(), which is about to call c.mu.Lock()
CBReset(t) ==
    /\ wc[t].pc = "Callback"
    /\ wcCallback
    /\ wc' = [wc EXCEPT ![t].pc = "Nested", ![Inner] = [WCIdle EXCEPT !.op = "ResetCall"]]
    /\ UNCHANGED <<count, fired, wcMu, wcCallback, hist>>
    /\ UNCHANGED nonWC

\* the call made by the callback has returned
CBReturn(t) ==
    /\ wc[t].pc = "Nested"
    /\ wc[Inner] = WCIdle
    /\ wc' = [wc EXCEPT ![t].pc = "Callback"]
    /\ UNCHANGED <<count, fired, wcMu, wcCallback, hist>>
    /\ UNCHANGED nonWC

(* ------------------------------ WarmLock -------------------------------- *)

\* sync.RWMutex admits this many readers
rwmutexMaxReaders == 1073741824

LKIdle == [pc |-> "idle", held |-> "none", r |-> 0]

NoLockHist ==
    [calls |-> 0,                           \* RLock and Lock calls so far
     announced |-> [t \in Threads |-> {}],  \* Lock calls announced when t's RLock began
     owed |-> 0,     \* RLock calls that were asleep when the latest Lock call announced itself
     passed |-> 0,   \* RLock calls that acquired since, that Lock call still waiting
     doneR |-> 0,    \* RLock calls returned since the latest ResetMetrics
     doneW |-> 0,    \* Lock calls returned since the latest ResetMetrics
     early |-> {},   \* RLock calls in flight whose count the latest ResetMetrics erased
     erased |-> 0]   \* RLock calls returned since, their count erased by it

\* NewWarmLock()
NewWarmLock ==
    /\ readerCount = 0
    /\ readerWait = 0
    /\ rwW = NoThread
    /\ writerSem = 0
    /\ readerSem = 0
    /\ readLockCount = 0
    /\ activeReadLocks = 0
    /\ exclusiveLockCount = 0
    /\ lk = [t \in Threads |-> LKIdle]
    /\ lkHist = NoLockHist

\* a Lock call that has made readerCount negative and does not own the lock yet
LockAnnounced(w) == lk[w].pc \in {"LockWait", "LockSem"}

WriterPendingNever(rc) == FALSE

\* RLock: rw.readerCount.Add(1) < 0, a writer is pending
WriterPending(rc) == rc < 0

\* WarmLock.RLock: w.mu.RLock(), its readerCount.Add(1)
WLRLockAdd(t) ==
    /\ lk[t].pc = "idle" /\ lk[t].held = "none"
    /\ lkHist.calls < MaxLockCalls
    /\ readerCount' = readerCount + 1
    /\ lk' = [lk EXCEPT ![t] = IF WriterPending(readerCount + 1)
                               THEN [LKIdle EXCEPT !.pc = "RSem"]
                               ELSE [LKIdle EXCEPT !.pc = "RMetrics", !.held = "read"]]
    /\ lkHist' = [lkHist EXCEPT
                    !.calls = @ + 1,
                    !.announced[t] = {w \in Threads : LockAnnounced(w)}]
    /\ UNCHANGED <<readerWait, rwW, writerSem, readerSem, readLockCount,
                   activeReadLocks, exclusiveLockCount>>
    /\ UNCHANGED nonWL

\* w.mu.RLock(): the sleep on readerSem ends
WLRLockSem(t) ==
    /\ lk[t].pc = "RSem"
    /\ readerSem > 0
    /\ readerSem' = readerSem - 1
    /\ lk' = [lk EXCEPT ![t].pc = "RMetrics", ![t].held = "read"]
    /\ lkHist' = [lkHist EXCEPT
                    !.passed = IF \E w \in Threads : LockAnnounced(w) THEN @ + 1 ELSE @]
    /\ UNCHANGED <<readerCount, readerWait, rwW, writerSem, readLockCount,
                   activeReadLocks, exclusiveLockCount>>
    /\ UNCHANGED nonWL

\* WarmLock.RLock: w.readLockCount++ under metricsLock
WLRLockMetrics(t) ==
    /\ lk[t].pc = "RMetrics"
    /\ readLockCount' = readLockCount + 1
    /\ lk' = [lk EXCEPT ![t].pc = "RActive"]
    /\ UNCHANGED <<readerCount, readerWait, rwW, writerSem, readerSem,
                   activeReadLocks, exclusiveLockCount, lkHist>>
    /\ UNCHANGED nonWL

\* WarmLock.RLock: w.activeReadLocks.Add(1), and the return
WLRLockActive(t) ==
    /\ lk[t].pc = "RActive"
    /\ activeReadLocks' = activeReadLocks + 1
    /\ lk' = [lk EXCEPT ![t].pc = "idle"]
    /\ lkHist' = [lkHist EXCEPT !.doneR = @ + 1,
                                !.erased = IF t \in lkHist.early THEN @ + 1 ELSE @,
                                !.early = @ \ {t}]
    /\ UNCHANGED <<readerCount, readerWait, rwW, writerSem, readerSem,
                   readLockCount, exclusiveLockCount>>
    /\ UNCHANGED nonWL

\* WarmLock.RUnlock: w.activeReadLocks.Add(-1)
WLRUnlockActive(t) ==
    /\ lk[t].pc = "idle" /\ lk[t].held = "read"
    /\ activeReadLocks' = activeReadLocks - 1
    /\ lk' = [lk EXCEPT ![t].pc = "RUnlockAdd"]
    /\ UNCHANGED <<readerCount, readerWait, rwW, writerSem, readerSem,
                   readLockCount, exclusiveLockCount, lkHist>>
    /\ UNCHANGED nonWL

\* w.mu.RUnlock(): r := rw.readerCount.Add(-1); r < 0 goes to rUnlockSlow
WLRUnlockAdd(t) ==
    /\ lk[t].pc = "RUnlockAdd"
    /\ readerCount' = readerCount - 1
    /\ lk' = [lk EXCEPT ![t] = IF WriterPending(readerCount - 1)
                               THEN [LKIdle EXCEPT !.pc = "RUnlockSlow"]
                               ELSE LKIdle]
    /\ lkHist' = [lkHist EXCEPT !.announced[t] = {}]
    /\ UNCHANGED <<readerWait, rwW, writerSem, readerSem, readLockCount,
                   activeReadLocks, exclusiveLockCount>>
    /\ UNCHANGED nonWL

LastReaderAlways(rw) == TRUE

\* rUnlockSlow: rw.readerWait.Add(-1) == 0, the last reader the writer waits for
LastReader(rw) == rw = 0

\* rUnlockSlow: the last departing reader releases writerSem
WLRUnlockSlow(t) ==
    /\ lk[t].pc = "RUnlockSlow"
    /\ readerWait' = readerWait - 1
    /\ writerSem' = IF LastReader(readerWait - 1) THEN writerSem + 1 ELSE writerSem
    /\ lk' = [lk EXCEPT ![t] = LKIdle]
    /\ UNCHANGED <<readerCount, rwW, readerSem, readLockCount,
                   activeReadLocks, exclusiveLockCount, lkHist>>
    /\ UNCHANGED nonWL

\* WarmLock.Lock is called
WLLockCall(t) ==
    /\ lk[t].pc = "idle" /\ lk[t].held = "none"
    /\ lkHist.calls < MaxLockCalls
    /\ lk' = [lk EXCEPT ![t].pc = "LockW"]
    /\ lkHist' = [lkHist EXCEPT !.calls = @ + 1]
    /\ UNCHANGED <<readerCount, readerWait, rwW, writerSem, readerSem,
                   readLockCount, activeReadLocks, exclusiveLockCount>>
    /\ UNCHANGED nonWL

\* w.mu.Lock(): rw.w.Lock(), competition with the other writers
WLLockW(t) ==
    /\ lk[t].pc = "LockW"
    /\ rwW = NoThread
    /\ rwW' = t
    /\ lk' = [lk EXCEPT ![t].pc = "Announce"]
    /\ UNCHANGED <<readerCount, readerWait, writerSem, readerSem, readLockCount,
                   activeReadLocks, exclusiveLockCount, lkHist>>
    /\ UNCHANGED nonWL

\* w.mu.Lock(): r := rw.readerCount.Add(-rwmutexMaxReaders) + rwmutexMaxReaders
WLLockAnnounce(t) ==
    /\ lk[t].pc = "Announce"
    /\ readerCount' = readerCount - rwmutexMaxReaders
    /\ lk' = [lk EXCEPT ![t] = IF readerCount # 0
                               THEN [@ EXCEPT !.pc = "LockWait", !.r = readerCount]
                               ELSE [@ EXCEPT !.pc = "LockMetrics", !.held = "write"]]
    /\ lkHist' = IF readerCount # 0
                 THEN [lkHist EXCEPT
                         !.owed = Cardinality({u \in Threads : lk[u].pc = "RSem"}),
                         !.passed = 0]
                 ELSE lkHist
    /\ UNCHANGED <<readerWait, rwW, writerSem, readerSem, readLockCount,
                   activeReadLocks, exclusiveLockCount>>
    /\ UNCHANGED nonWL

\* w.mu.Lock(): if r != 0 && rw.readerWait.Add(r) != 0, sleep on writerSem
WLLockWait(t) ==
    /\ lk[t].pc = "LockWait"
    /\ readerWait' = readerWait + lk[t].r
    /\ lk' = [lk EXCEPT ![t] = IF readerWait + lk[t].r # 0
                               THEN [@ EXCEPT !.pc = "LockSem", !.r = 0]
                               ELSE [@ EXCEPT !.pc = "LockMetrics", !.r = 0, !.held = "write"]]
    /\ lkHist' = IF readerWait + lk[t].r # 0
                 THEN lkHist
                 ELSE [lkHist EXCEPT !.owed = 0, !.passed = 0]
    /\ UNCHANGED <<readerCount, rwW, writerSem, readerSem, readLockCount,
                   activeReadLocks, exclusiveLockCount>>
    /\ UNCHANGED nonWL

\* w.mu.Lock(): the sleep on writerSem ends
WLLockSem(t) ==
    /\ lk[t].pc = "LockSem"
    /\ writerSem > 0
    /\ writerSem' = writerSem - 1
    /\ lk' = [lk EXCEPT ![t].pc = "LockMetrics", ![t].held = "write"]
    /\ lkHist' = [lkHist EXCEPT !.owed = 0, !.passed = 0]
    /\ UNCHANGED <<readerCount, readerWait, rwW, readerSem, readLockCount,
                   activeReadLocks, exclusiveLockCount>>
    /\ UNCHANGED nonWL

\* WarmLock.Lock: w.exclusiveLockCount++ under metricsLock, and the return
WLLockMetrics(t) ==
    /\ lk[t].pc = "LockMetrics"
    /\ exclusiveLockCount' = exclusiveLockCount + 1
    /\ lk' = [lk EXCEPT ![t].pc = "idle"]
    /\ lkHist' = [lkHist EXCEPT !.doneW = @ + 1]
    /\ UNCHANGED <<readerCount, readerWait, rwW, writerSem, readerSem,
                   readLockCount, activeReadLocks>>
    /\ UNCHANGED nonWL

ReadersToWakeNone(r) == 0

\* w.mu.Unlock(): the loop bound int(r), one readerSem release per blocked reader
ReadersToWake(r) == r

\* WarmLock.Unlock: w.mu.Unlock(), r := rw.readerCount.Add(rwmutexMaxReaders)
WLUnlockAdd(t) ==
    /\ lk[t].pc = "idle" /\ lk[t].held = "write"
    /\ readerCount' = readerCount + rwmutexMaxReaders
    /\ lk' = [lk EXCEPT ![t] = [pc |-> "UnlockWake", held |-> "none",
                                r |-> ReadersToWake(readerCount + rwmutexMaxReaders)]]
    /\ lkHist' = [lkHist EXCEPT !.announced = [u \in Threads |-> @[u] \ {t}]]
    /\ UNCHANGED <<readerWait, rwW, writerSem, readerSem, readLockCount,
                   activeReadLocks, exclusiveLockCount>>
    /\ UNCHANGED nonWL

\* w.mu.Unlock(): for i := 0; i < int(r); i++ { runtime_Semrelease(&rw.readerSem) }
WLUnlockWake(t) ==
    /\ lk[t].pc = "UnlockWake"
    /\ lk[t].r > 0
    /\ readerSem' = readerSem + 1
    /\ lk' = [lk EXCEPT ![t].r = @ - 1]
    /\ UNCHANGED <<readerCount, readerWait, rwW, writerSem, readLockCount,
                   activeReadLocks, exclusiveLockCount, lkHist>>
    /\ UNCHANGED nonWL

\* w.mu.Unlock(): rw.w.Unlock(), the other writers may proceed
WLUnlockW(t) ==
    /\ lk[t].pc = "UnlockWake"
    /\ lk[t].r = 0
    /\ rwW' = NoThread
    /\ lk' = [lk EXCEPT ![t] = LKIdle]
    /\ UNCHANGED <<readerCount, readerWait, writerSem, readerSem, readLockCount,
                   activeReadLocks, exclusiveLockCount, lkHist>>
    /\ UNCHANGED nonWL

\* variant: a ResetMetrics that leaves readLockCount as it is
WLResetMetricsKeepsReads ==
    /\ exclusiveLockCount' = 0
    /\ lkHist' = [lkHist EXCEPT !.doneR = 0, !.doneW = 0, !.erased = 0,
                                !.early = {t \in Threads : lk[t].pc = "RActive"}]
    /\ UNCHANGED <<readerCount, readerWait, rwW, writerSem, readerSem,
                   readLockCount, activeReadLocks, lk>>
    /\ UNCHANGED nonWL

\* WarmLock.ResetMetrics: under metricsLock, the counts go back to 0;
\* activeReadLocks is left as it is
WLResetMetrics ==
    /\ exclusiveLockCount' = 0
    /\ readLockCount' = 0
    /\ lkHist' = [lkHist EXCEPT !.doneR = 0, !.doneW = 0, !.erased = 0,
                                !.early = {t \in Threads : lk[t].pc = "RActive"}]
    /\ UNCHANGED <<readerCount, readerWait, rwW, writerSem, readerSem,
                   activeReadLocks, lk>>
    /\ UNCHANGED nonWL

\* WarmLock.Metrics: the snapshot read under metricsLock
Metrics ==
    [ExclusiveLockCount |-> exclusiveLockCount,
     ReadLockCount |-> readLockCount,
     CurrentActiveReadLocks |-> activeReadLocks]

(* ----------------------------- Orchestrator ---------------------------- *)

\* the orchestrator before the session starts: no reduce requested, key
\* expiry not latched, trigger sources running
NewOrchestrator ==
    /\ orch = [stage |-> "Boot", req |-> FALSE, keyExpired |-> FALSE,
               stopped |-> FALSE, resetsSeen |-> 0,
               errAt |-> "none", errSeen |-> 0]
    /\ trig = [t \in Threads |-> "none"]

\* goroutine t is in no call and holds no unread result
Resting(t) ==
    /\ trig[t] = "none"
    /\ sm[t] = IdleFrame
    /\ wc[t].pc = "idle"

\* the result of goroutine t's call into the state machine has been read
SMRead(t) == [sm EXCEPT ![t] = IdleFrame]

\* session start: STARTUP -> COLLECTING
ORBootCall ==
    /\ orch.stage = "Boot"
    /\ sm[Orch].ret = "none"
    /\ CallTransitionTo(Orch, StateCollecting)

ORBootReturn ==
    /\ orch.stage = "Boot"
    /\ sm[Orch].pc = "idle" /\ sm[Orch].ret \in {"nil", "err"}
    /\ orch' = [orch EXCEPT !.stage = IF sm[Orch].ret = "nil" THEN "idle" ELSE "failed"]
    /\ sm' = SMRead(Orch)
    /\ UNCHANGED <<state, smMu, callback, cbLast, smErr, trig>>
    /\ UNCHANGED <<wcVars, wlVars, extVars>>

\* trigger source 1, a rotation: WarmCounter.Increment()
ORIncrement ==
    /\ ~orch.stopped
    /\ Resting(Rotation)
    /\ WCAdd(Rotation)

\* the counter's callback: if sm.TryTransitionToReducing() { request the reduce }
ORCallbackCall(t) ==
    /\ wc[t].pc = "Callback"
    /\ sm[t].ret = "none"
    /\ CallTryTransitionToReducing(t)

ORCallbackReturn(t) ==
    /\ wc[t].pc = "Callback"
    /\ sm[t].pc = "idle" /\ sm[t].ret \in {"true", "false"}
    /\ orch' = [orch EXCEPT !.req = @ \/ sm[t].ret = "true"]
    /\ sm' = SMRead(t)
    /\ wc' = [wc EXCEPT ![t].pc = "Unlock"]
    /\ hist' = [hist EXCEPT !.fires = @ + 1, !.invoked = @ + 1]
    /\ UNCHANGED <<state, smMu, callback, cbLast, smErr, trig>>
    /\ UNCHANGED <<count, fired, wcMu, wcCallback>>
    /\ UNCHANGED <<wlVars, extVars>>

\* trigger source 2: a crawler error classified as key expiry; the flag is latched
ORKeyExpiryError ==
    /\ ~orch.stopped
    /\ Resting(ErrorHandler)
    /\ trig' = [trig EXCEPT ![ErrorHandler] = "error"]
    /\ orch' = [orch EXCEPT !.keyExpired = TRUE]
    /\ UNCHANGED <<smVars, wcVars, wlVars, extVars>>

\* trigger source 3: the shutdown signal; the trigger sources are stopped
ORShutdownSignal ==
    /\ ~orch.stopped
    /\ Resting(SignalHandler)
    /\ trig' = [trig EXCEPT ![SignalHandler] = "shutdown"]
    /\ orch' = [orch EXCEPT !.stopped = TRUE]
    /\ UNCHANGED <<smVars, wcVars, wlVars, extVars>>

\* the handler of the error or of the signal: if sm.TryTransitionToReducing() { ... }
ORTryCall(t) ==
    /\ trig[t] # "none"
    /\ sm[t].ret = "none"
    /\ CallTryTransitionToReducing(t)

ORTryReturn(t) ==
    /\ trig[t] # "none"
    /\ sm[t].pc = "idle" /\ sm[t].ret \in {"true", "false"}
    /\ orch' = [orch EXCEPT !.req = @ \/ sm[t].ret = "true"]
    /\ sm' = SMRead(t)
    /\ trig' = [trig EXCEPT ![t] = "none"]
    /\ UNCHANGED <<state, smMu, callback, cbLast, smErr>>
    /\ UNCHANGED <<wcVars, wlVars, extVars>>

\* the orchestrator takes up the reduce the winner requested
ORStartReduce ==
    /\ orch.stage = "idle"
    /\ orch.req
    /\ orch' = [orch EXCEPT !.stage = "Flush", !.req = FALSE]
    /\ UNCHANGED <<smVars, wcVars, wlVars, trig, extVars>>

StageAfterSkipsLock(stage) ==
    CASE stage = "Flush" -> "Aggregate"
      [] stage = "Aggregate" -> "Archive"
      [] stage = "Archive" -> "Unlock"
      [] stage = "Push" -> "Reset"

\* the steps of the reduce that touch neither lock, counter nor state machine:
\* 1 FlushAndRotate, 3 aggregate, 4 archive, 7 Push
StageAfter(stage) ==
    CASE stage = "Flush" -> "Lock"
      [] stage = "Aggregate" -> "Archive"
      [] stage = "Archive" -> "Unlock"
      [] stage = "Push" -> "Reset"

ORStep ==
    /\ orch.stage \in {"Flush", "Aggregate", "Archive", "Push"}
    /\ orch' = [orch EXCEPT !.stage = StageAfter(@)]
    /\ UNCHANGED <<smVars, wcVars, wlVars, trig, extVars>>

\* 2 acquire WarmLock exclusively
ORLockCall ==
    /\ orch.stage = "Lock"
    /\ WLLockCall(Orch)

ORLockReturn ==
    /\ orch.stage = "Lock"
    /\ lk[Orch].pc = "idle" /\ lk[Orch].held = "write"
    /\ orch' = [orch EXCEPT !.stage = "Aggregate"]
    /\ UNCHANGED <<smVars, wcVars, wlVars, trig, extVars>>

\* 5 release WarmLock
ORUnlockCall ==
    /\ orch.stage = "Unlock"
    /\ WLUnlockAdd(Orch)

ORUnlockReturn ==
    /\ orch.stage = "Unlock"
    /\ lk[Orch] = LKIdle
    /\ orch' = [orch EXCEPT !.stage = "ToPushing"]
    /\ UNCHANGED <<smVars, wcVars, wlVars, trig, extVars>>

\* 6 transition to PUSHING
ORPushingCall ==
    /\ orch.stage = "ToPushing"
    /\ sm[Orch].ret = "none"
    /\ CallTransitionTo(Orch, StatePushing)

ORPushingReturn ==
    /\ orch.stage = "ToPushing"
    /\ sm[Orch].pc = "idle" /\ sm[Orch].ret \in {"nil", "err"}
    /\ orch' = [orch EXCEPT !.stage = IF sm[Orch].ret = "nil" THEN "Push" ELSE "failed"]
    /\ sm' = SMRead(Orch)
    /\ UNCHANGED <<state, smMu, callback, cbLast, smErr, trig>>
    /\ UNCHANGED <<wcVars, wlVars, extVars>>

\* 8 WarmCounter.Reset()
ORResetCall ==
    /\ orch.stage = "Reset"
    /\ hist.resets = orch.resetsSeen
    /\ WCResetLock(Orch)

ORResetReturn ==
    /\ orch.stage = "Reset"
    /\ hist.resets > orch.resetsSeen
    /\ wc[Orch].pc = "idle"
    /\ orch' = [orch EXCEPT !.stage = "ToNext", !.resetsSeen = hist.resets]
    /\ UNCHANGED <<smVars, wcVars, wlVars, trig, extVars>>

NextStateCollecting(keyExpired) == StateCollecting

\* 9 if key expiry is latched transition to WAITING_FOR_KEY, else to COLLECTING
NextState(keyExpired) == IF keyExpired THEN StateWaitingForKey ELSE StateCollecting

ORNextCall ==
    /\ orch.stage = "ToNext"
    /\ sm[Orch].ret = "none"
    /\ CallTransitionTo(Orch, NextState(orch.keyExpired))

ORNextReturn ==
    /\ orch.stage = "ToNext"
    /\ sm[Orch].pc = "idle" /\ sm[Orch].ret \in {"nil", "err"}
    /\ orch' = [orch EXCEPT !.stage = IF sm[Orch].ret = "nil" THEN "idle" ELSE "failed"]
    /\ sm' = SMRead(Orch)
    /\ UNCHANGED <<state, smMu, callback, cbLast, smErr, trig>>
    /\ UNCHANGED <<wcVars, wlVars, extVars>>

\* shutdown: the trigger sources have stopped and no reduce is in flight
ORShutdownCall ==
    /\ orch.stage = "idle"
    /\ orch.stopped /\ ~orch.req
    /\ \A t \in Triggers : Resting(t)
    /\ sm[Orch].ret = "none"
    /\ CallTransitionTo(Orch, StateShutdown)

ORShutdownReturn ==
    /\ orch.stage = "idle"
    /\ sm[Orch].pc = "idle" /\ sm[Orch].ret \in {"nil", "err"}
    /\ orch' = [orch EXCEPT !.stage = IF sm[Orch].ret = "nil" THEN "done" ELSE "failed"]
    /\ sm' = SMRead(Orch)
    /\ UNCHANGED <<state, smMu, callback, cbLast, smErr, trig>>
    /\ UNCHANGED <<wcVars, wlVars, extVars>>

(* ------------------------- the crawler's error handler ------------------ *)

\* the errors a fetch can fail with: the two key-expiry errors (401, 403)
\* and an error of another kind (errors.New("connection timeout"))
Errors == {"ErrAPIKeyExpired", "ErrAPIKeyForbidden", "networkError"}

IsAPIKeyErrorAny(err) == TRUE

\* IsAPIKeyError(err): err is one of the two key-expiry errors
IsAPIKeyError(err) == err \in {"ErrAPIKeyExpired", "ErrAPIKeyForbidden"}

\* err := spider.FetchMatches(ctx); err != nil: handleError(err) begins.
\* errAt and errSeen remember the state and the number of completed reduces
\* at that moment.
ORCrawlerError(err) ==
    /\ ~orch.stopped
    /\ Resting(ErrorHandler)
    /\ trig' = [trig EXCEPT ![ErrorHandler] = err]
    /\ orch' = [orch EXCEPT !.keyExpired = @ \/ IsAPIKeyError(err),
                            !.errAt = state, !.errSeen = orch.resetsSeen]
    /\ UNCHANGED <<smVars, wcVars, wlVars, extVars>>

\* handleError: if IsAPIKeyError(err) && sm.TryTransitionToReducing() { reduce }
ORHandleCall ==
    /\ IsAPIKeyError(trig[ErrorHandler])
    /\ ORTryCall(ErrorHandler)

\* handleError with an error of another kind: nothing is called, the fetch
\* is retried
ORHandleRetry ==
    /\ trig[ErrorHandler] # "none"
    /\ ~IsAPIKeyError(trig[ErrorHandler])
    /\ sm[ErrorHandler] = IdleFrame
    /\ trig' = [trig EXCEPT ![ErrorHandler] = "none"]
    /\ UNCHANGED <<orch, smVars, wcVars, wlVars, extVars>>

(* ------------------- key-expiry flow and fresh restart ------------------ *)

\* the external seed source, best first
SeedSource == <<"Challenger-PUUID-1", "Challenger-PUUID-2">>

TopSeed == Head(SeedSource)

\* the candidates the key provider can hand over
Candidates == {"INVALID-KEY", "RGAPI-new-valid-key"}

ValidateKeyAny(key) == key \in Candidates

\* the validator: the candidate is the key the remote service accepts
ValidateKey(key) == key = "RGAPI-new-valid-key"

\* no candidate received yet; `left` is what the session held when the key expired
NoCandidate == [candidate |-> "none", tried |-> 0, left |-> "none"]

\* the session state after STARTUP: empty bloom filters, the top seed queued
NewSession ==
    /\ sess = [matchBloom |-> {}, puuidBloom |-> {}, queue |-> <<TopSeed>>]
    /\ kp = NoCandidate

\* in WAITING_FOR_KEY the orchestrator emits the notification and starts polling
KWNotify ==
    /\ orch.stage = "idle"
    /\ state = StateWaitingForKey
    /\ sm[Orch] = IdleFrame
    /\ orch' = [orch EXCEPT !.stage = "Poll"]
    /\ UNCHANGED <<smVars, wcVars, wlVars, trig, extVars>>

\* the key provider hands over a candidate
KWPoll(key) ==
    /\ orch.stage = "Poll"
    /\ kp.tried < MaxCandidates
    /\ kp' = [kp EXCEPT !.candidate = key, !.tried = @ + 1]
    /\ orch' = [orch EXCEPT !.stage = "Validate"]
    /\ UNCHANGED <<smVars, wcVars, wlVars, trig, sess>>
    /\ UNCHANGED nonKW

\* if validator.ValidateKey(newKey) { sm.TransitionTo(StateFreshRestart) ... };
\* otherwise the loop polls again
KWValidate ==
    /\ orch.stage = "Validate"
    /\ orch' = [orch EXCEPT !.stage = IF ValidateKey(kp.candidate) THEN "ToFresh" ELSE "Poll"]
    /\ UNCHANGED <<smVars, wcVars, wlVars, trig, extVars>>

\* the transitions of the flow: FRESH_RESTART, then STARTUP, then COLLECTING
KeyFlowTarget(stage) ==
    CASE stage = "ToFresh" -> StateFreshRestart
      [] stage = "ToStartup" -> StateStartup
      [] stage = "ToCollecting" -> StateCollecting

\* what follows each transition of the flow
KeyFlowAfter(stage) ==
    CASE stage = "ToFresh" -> "Clear"
      [] stage = "ToStartup" -> "ToCollecting"
      [] stage = "ToCollecting" -> "idle"

KWTransitionCall ==
    /\ orch.stage \in {"ToFresh", "ToStartup", "ToCollecting"}
    /\ sm[Orch].ret = "none"
    /\ CallTransitionTo(Orch, KeyFlowTarget(orch.stage))

KWTransitionReturn ==
    /\ orch.stage \in {"ToFresh", "ToStartup", "ToCollecting"}
    /\ sm[Orch].pc = "idle" /\ sm[Orch].ret \in {"nil", "err"}
    /\ orch' = [orch EXCEPT !.stage = IF sm[Orch].ret = "nil" THEN KeyFlowAfter(@) ELSE "failed"]
    /\ sm' = SMRead(Orch)
    /\ UNCHANGED <<state, smMu, callback, cbLast, smErr, trig>>
    /\ UNCHANGED <<wcVars, wlVars, extVars>>

TruncateKeep(queue) == queue

\* the producer queue truncated
Truncate(queue) == <<>>

\* clear both bloom filters; truncate the producer queue
KWClear ==
    /\ orch.stage = "Clear"
    /\ sess' = [matchBloom |-> {}, puuidBloom |-> {}, queue |-> Truncate(sess.queue)]
    /\ orch' = [orch EXCEPT !.stage = "KeyReset"]
    /\ UNCHANGED <<smVars, wcVars, wlVars, trig, kp>>
    /\ UNCHANGED nonKW

\* reset WarmCounter
KWResetCall ==
    /\ orch.stage = "KeyReset"
    /\ hist.resets = orch.resetsSeen
    /\ WCResetLock(Orch)

KWResetReturn ==
    /\ orch.stage = "KeyReset"
    /\ hist.resets > orch.resetsSeen
    /\ wc[Orch].pc = "idle"
    /\ orch' = [orch EXCEPT !.stage = "Seed", !.resetsSeen = hist.resets]
    /\ UNCHANGED <<smVars, wcVars, wlVars, trig, extVars>>

\* seed the queue from the top of the external seed source
KWSeed ==
    /\ orch.stage = "Seed"
    /\ sess' = [sess EXCEPT !.queue = Append(@, TopSeed)]
    /\ orch' = [orch EXCEPT !.stage = "ToStartup"]
    /\ UNCHANGED <<smVars, wcVars, wlVars, trig, kp>>
    /\ UNCHANGED nonKW

(* ------------------------ warm and cold directories --------------------- *)

\* a staged file raw_matches_<stamp>.jsonl, and a file of another kind
JsonlName(stamp) == <<stamp, "jsonl">>

OtherName(stamp) == <<stamp, "tmp">>

IsJsonlAny(name) == name[2] \in {"jsonl", "tmp"}

\* the pattern *.jsonl of filepath.Glob
IsJsonl(name) == name[2] = "jsonl"

\* filename := filepath.Base(srcPath) + ".gz"
GzName(name) == <<name[1], name[2] \o ".gz">>

EmptyDir == [n \in {} |-> <<>>]

PutKeep(dir, name, file) == [n \in DOMAIN dir \cup {name} |-> IF n \in DOMAIN dir THEN dir[n] ELSE file]

\* a file is created or replaced / a file is unlinked
Put(dir, name, file) == [n \in DOMAIN dir \cup {name} |-> IF n = name THEN file ELSE dir[n]]

DelKeep(dir, name) == dir

Del(dir, name) == [n \in DOMAIN dir \ {name} |-> dir[n]]

RECURSIVE SortNames(_)
\* the names of a set in lexical order, as filepath.Glob returns them
SortNames(S) ==
    IF S = {} THEN <<>>
    ELSE LET m == CHOOSE n \in S : \A k \in S : n[1] <= k[1]
         IN <<m>> \o SortNames(S \ {m})

\* filepath.Glob(filepath.Join(dir, "*.jsonl"))
Glob(dir) == SortNames({n \in DOMAIN dir : IsJsonl(n)})

\* the files of a directory that match *.jsonl
JsonlFiles(dir) == {n \in DOMAIN dir : IsJsonl(n)}

(* ----------------------------- gzip stream ------------------------------ *)

\* a gzip file without its trailer (the stream was not closed)
NoTrailer == -1

RECURSIVE Compress(_)
\* gzip.Writer: the deflated stream of the lines s, repeated lines as one
\* block with a repeat count
Compress(s) ==
    IF s = <<>> THEN <<>>
    ELSE LET rest == Compress(Tail(s))
         IN IF rest # <<>> /\ rest[1][1] = Head(s)
            THEN <<<<Head(s), rest[1][2] + 1>>>> \o Tail(rest)
            ELSE <<<<Head(s), 1>>>> \o rest

RECURSIVE Decompress(_)
\* gzip.Reader: the lines a deflated stream stands for
Decompress(blocks) ==
    IF blocks = <<>> THEN <<>>
    ELSE [i \in 1..blocks[1][2] |-> blocks[1][1]] \o Decompress(Tail(blocks))

\* the file os.Create leaves: empty
CreatedFile == [blocks |-> <<>>, trailer |-> NoTrailer]

\* gzip.Writer.Close writes the trailer: the length of the input
Trailer(s) == Len(s)

\* gzip.Reader reads the whole file without error: the trailer is there and
\* matches the inflated data
GunzipOK(file) == file.trailer = Len(Decompress(file.blocks))

\* the cold file is complete and holds content
HoldsContent(file, content) == GunzipOK(file) /\ Decompress(file.blocks) = content

\* what a failed write or a failed close can leave of a file: a prefix of its
\* blocks without trailer, or the file as it is
Damaged(file) ==
    {file} \cup {[blocks |-> SubSeq(file.blocks, 1, k), trailer |-> NoTrailer] :
                    k \in 0..Len(file.blocks)}

\* NewFileRotator / the tests' setup: empty directories
NewDirectories ==
    /\ warm = EmptyDir
    /\ cold = EmptyDir

(* ------------------------------ Archiver -------------------------------- *)

ARIdle == [pc |-> "idle", files |-> <<>>, i |-> 0, archived |-> 0, ret |-> "none"]

NoArchiveHist ==
    [calls |-> 0,            \* calls of ArchiveWarmToCold so far
     faults |-> 0,           \* I/O errors so far
     originals |-> EmptyDir, \* the warm directory when the latest call began
     coldBefore |-> EmptyDir,\* the cold directory when the latest call began
     closeFailed |-> {},     \* originals whose dst.Close() returned an error
     failed |-> "none"]      \* the operation that made the latest call return an error

NewArchiver ==
    /\ ar = ARIdle
    /\ arHist = NoArchiveHist

\* srcPath of the archiveFile call in progress
Src == ar.files[ar.i]

\* return archived, err / return archived, nil
ARReturn(ret) == [ar EXCEPT !.pc = "idle", !.ret = ret]

\* an I/O error may strike
MayFail == arHist.faults < MaxFaults

ARFault(op) == [arHist EXCEPT !.faults = @ + 1, !.failed = op]

\* ArchiveWarmToCold: os.MkdirAll(coldDir), filepath.Glob(warm/*.jsonl);
\* len(files) == 0 returns 0, nil
ARCall ==
    /\ ar.pc = "idle"
    /\ arHist.calls < MaxArchiveCalls
    /\ ar' = IF Glob(warm) = <<>>
             THEN [ARIdle EXCEPT !.ret = "nil"]
             ELSE [ARIdle EXCEPT !.pc = "Open", !.files = Glob(warm), !.i = 1]
    /\ arHist' = [arHist EXCEPT !.calls = @ + 1, !.originals = warm, !.coldBefore = cold,
                                !.closeFailed = {}, !.failed = "none"]
    /\ UNCHANGED fsVars
    /\ UNCHANGED nonAR

\* archiveFile: src, err := os.Open(srcPath)
AROpen ==
    /\ ar.pc = "Open"
    /\ Src \in DOMAIN warm
    /\ ar' = [ar EXCEPT !.pc = "Create"]
    /\ UNCHANGED <<fsVars, arHist>>
    /\ UNCHANGED nonAR

\* os.Open fails: return err
AROpenFail ==
    /\ ar.pc = "Open"
    /\ MayFail \/ Src \notin DOMAIN warm
    /\ ar' = ARReturn("err")
    /\ arHist' = ARFault("open")
    /\ UNCHANGED fsVars
    /\ UNCHANGED nonAR

\* dst, err := os.Create(dstPath): the cold file exists, empty
ARCreate ==
    /\ ar.pc = "Create"
    /\ cold' = Put(cold, GzName(Src), CreatedFile)
    /\ ar' = [ar EXCEPT !.pc = "Copy"]
    /\ UNCHANGED <<warm, arHist>>
    /\ UNCHANGED nonAR

\* os.Create fails: src.Close(), return err
ARCreateFail ==
    /\ ar.pc = "Create"
    /\ MayFail
    /\ ar' = ARReturn("err")
    /\ arHist' = ARFault("create")
    /\ UNCHANGED fsVars
    /\ UNCHANGED nonAR

\* io.Copy(gzWriter, src): the deflated lines are in the cold file
ARCopy ==
    /\ ar.pc = "Copy"
    /\ cold' = Put(cold, GzName(Src), [blocks |-> Compress(warm[Src]), trailer |-> NoTrailer])
    /\ ar' = [ar EXCEPT !.pc = "GzClose"]
    /\ UNCHANGED <<warm, arHist>>
    /\ UNCHANGED nonAR

\* io.Copy fails after part of the stream was written
ARCopyFail ==
    /\ ar.pc = "Copy"
    /\ MayFail
    /\ \E k \in 0..Len(Compress(warm[Src])) :
          cold' = Put(cold, GzName(Src),
                      [blocks |-> SubSeq(Compress(warm[Src]), 1, k), trailer |-> NoTrailer])
    /\ ar' = [ar EXCEPT !.pc = "Cleanup"]
    /\ arHist' = ARFault("copy")
    /\ UNCHANGED warm
    /\ UNCHANGED nonAR

\* gzWriter.Close(): the trailer is written
ARGzClose ==
    /\ ar.pc = "GzClose"
    /\ cold' = Put(cold, GzName(Src), [cold[GzName(Src)] EXCEPT !.trailer = Trailer(warm[Src])])
    /\ ar' = [ar EXCEPT !.pc = "DstClose"]
    /\ UNCHANGED <<warm, arHist>>
    /\ UNCHANGED nonAR

\* gzWriter.Close() fails
ARGzCloseFail ==
    /\ ar.pc = "GzClose"
    /\ MayFail
    /\ ar' = [ar EXCEPT !.pc = "Cleanup"]
    /\ arHist' = ARFault("gzclose")
    /\ UNCHANGED fsVars
    /\ UNCHANGED nonAR

\* the error path: gzWriter.Close(), dst.Close(), src.Close(), os.Remove(dstPath), return err
ARCleanup ==
    /\ ar.pc = "Cleanup"
    /\ cold' = Del(cold, GzName(Src))
    /\ ar' = ARReturn("err")
    /\ UNCHANGED <<warm, arHist>>
    /\ UNCHANGED nonAR

\* dst.Close(), src.Close()
ARDstClose ==
    /\ ar.pc = "DstClose"
    /\ ar' = [ar EXCEPT !.pc = "Remove"]
    /\ UNCHANGED <<fsVars, arHist>>
    /\ UNCHANGED nonAR

\* dst.Close() returns an error, which is discarded; what was written last
\* may not have reached the file
ARDstCloseFail ==
    /\ ar.pc = "DstClose"
    /\ MayFail
    /\ \E file \in Damaged(cold[GzName(Src)]) : cold' = Put(cold, GzName(Src), file)
    /\ ar' = [ar EXCEPT !.pc = "Remove"]
    /\ arHist' = [arHist EXCEPT !.faults = @ + 1, !.closeFailed = @ \cup {Src}]
    /\ UNCHANGED warm
    /\ UNCHANGED nonAR

\* os.Remove(srcPath); archived++; the next file, or return archived, nil
ARRemove ==
    /\ ar.pc = "Remove"
    /\ warm' = Del(warm, Src)
    /\ ar' = IF ar.i < Len(ar.files)
             THEN [ar EXCEPT !.pc = "Open", !.i = @ + 1, !.archived = @ + 1]
             ELSE [ar EXCEPT !.pc = "idle", !.ret = "nil", !.archived = @ + 1]
    /\ UNCHANGED <<cold, arHist>>
    /\ UNCHANGED nonAR

\* os.Remove(srcPath) fails: return archived, err
ARRemoveFail ==
    /\ ar.pc = "Remove"
    /\ MayFail
    /\ ar' = ARReturn("err")
    /\ arHist' = ARFault("remove")
    /\ UNCHANGED fsVars
    /\ UNCHANGED nonAR

\* the steps of ArchiveWarmToCold when no I/O error strikes
ARProceed ==
    \/ AROpen \/ ARCreate \/ ARCopy \/ ARGzClose \/ ARDstClose \/ ARRemove

(* ------------------------------ Aggregator ------------------------------ *)

\* a line of a warm file that unmarshals into a RawMatch; the version is the
\* sequence of its dot-separated segments, Items are Item0.., 0 when empty
RawMatch(id, version, champ, pos, win, items, build) ==
    [form |-> "json", MatchID |-> id, GameVersion |-> version, ChampionID |-> champ,
     TeamPosition |-> pos, Win |-> win, Items |-> items, BuildOrder |-> build]

\* a line that is not JSON, and a line longer than the scanner's buffer
Garbage == [RawMatch("", <<>>, 0, "", FALSE, <<>>, <<>>) EXCEPT !.form = "garbage"]

Oversize == [RawMatch("", <<>>, 0, "", FALSE, <<>>, <<>>) EXCEPT !.form = "oversize"]

\* normalizePatch: the first two segments of the version
normalizePatch(version) ==
    IF Len(version) >= 2 THEN SubSeq(version, 1, 2) ELSE version

\* the item filter given to AggregateWarmFiles: the completed items
CompletedItems == {1, 2}

ItemFilter(itemID) == itemID \in CompletedItems

\* only build slots 1-6 are tracked
MaxBuildSlot == 6

RECURSIVE Kept(_, _)
\* the items of a list in order, without the empty slots, the duplicates and
\* the items the filter rejects
Kept(items, seen) ==
    IF items = <<>> THEN <<>>
    ELSE IF Head(items) = 0 \/ Head(items) \in seen \/ ~ItemFilter(Head(items))
         THEN Kept(Tail(items), seen)
         ELSE <<Head(items)>> \o Kept(Tail(items), seen \cup {Head(items)})

\* an empty stats map
NoStats == <<>>

BumpReplace(stats, key, won) ==
    (key :> [Wins |-> IF won THEN 1 ELSE 0, Matches |-> 1]) @@ stats

\* stats[key].Matches++; if won { stats[key].Wins++ }, the entry created when
\* it does not exist
Bump(stats, key, won) ==
    IF key \in DOMAIN stats
    THEN [stats EXCEPT ![key] = [Wins |-> @.Wins + (IF won THEN 1 ELSE 0),
                                 Matches |-> @.Matches + 1]]
    ELSE stats @@ (key :> [Wins |-> IF won THEN 1 ELSE 0, Matches |-> 1])

RECURSIVE BumpAll(_, _, _)
\* Bump for each key of a list
BumpAll(stats, keys, won) ==
    IF keys = <<>> THEN stats
    ELSE BumpAll(Bump(stats, Head(keys), won), Tail(keys), won)

ChampionStatsKey(patch, m) ==
    [Patch |-> patch, ChampionID |-> m.ChampionID, TeamPosition |-> m.TeamPosition]

ItemStatsKey(patch, m, itemID) ==
    [Patch |-> patch, ChampionID |-> m.ChampionID, TeamPosition |-> m.TeamPosition,
     ItemID |-> itemID]

ItemSlotStatsKey(patch, m, itemID, buildSlot) ==
    [Patch |-> patch, ChampionID |-> m.ChampionID, TeamPosition |-> m.TeamPosition,
     ItemID |-> itemID, BuildSlot |-> buildSlot]

MatchupStatsKey(patch, m, enemy) ==
    [Patch |-> patch, ChampionID |-> m.ChampionID, TeamPosition |-> m.TeamPosition,
     EnemyChampionID |-> enemy.ChampionID]

\* what aggregateFile holds of the file it scans
NoFile ==
    [champ |-> NoStats, item |-> NoStats, slot |-> NoStats, matchup |-> NoStats,
     patch |-> <<>>, records |-> 0, groups |-> NoStats]

\* the body of the scan loop for a line that unmarshalled into m
ScanMatch(f, m) ==
    LET patch == normalizePatch(m.GameVersion)
        final == Kept(m.Items, {})
        build == Kept(m.BuildOrder, {})
        slots == SubSeq(build, 1, IF Len(build) <= MaxBuildSlot THEN Len(build) ELSE MaxBuildSlot)
    IN IF m.TeamPosition = ""
       THEN [f EXCEPT !.records = @ + 1]
       ELSE [f EXCEPT
               !.records = @ + 1,
               !.patch = IF @ = <<>> THEN patch ELSE @,
               !.champ = Bump(@, ChampionStatsKey(patch, m), m.Win),
               !.item = BumpAll(@, [i \in 1..Len(final) |-> ItemStatsKey(patch, m, final[i])], m.Win),
               !.slot = BumpAll(@, [i \in 1..Len(slots) |-> ItemSlotStatsKey(patch, m, slots[i], i)], m.Win),
               !.groups = IF m.MatchID \in DOMAIN @
                          THEN [@ EXCEPT ![m.MatchID] = Append(@, m)]
                          ELSE @ @@ (m.MatchID :> <<m>>)]

\* the positions of the participants of each match: the keys of byPosition,
\* match by match
Groups(groups) ==
    UNION {{<<id, groups[id][k].TeamPosition>> : k \in 1..Len(groups[id])} :
             id \in DOMAIN groups}

\* byPosition[pos] of the participants of one match
PosPlayers(participants, pos) ==
    SelectSeq(participants, LAMBDA p : p.TeamPosition = pos)

MatchupAnyOutcome(stats, posPlayers) ==
    IF Len(posPlayers) # 2 THEN stats
    ELSE LET p1 == posPlayers[1]
             p2 == posPlayers[2]
             patch == normalizePatch(p1.GameVersion)
         IN Bump(Bump(stats, MatchupStatsKey(patch, p1, p2), p1.Win),
                 MatchupStatsKey(patch, p2, p1), p2.Win)

\* the body of the second pass for one position of one match
Matchup(stats, posPlayers) ==
    IF Len(posPlayers) # 2 THEN stats
    ELSE LET p1 == posPlayers[1]
             p2 == posPlayers[2]
             patch == normalizePatch(p1.GameVersion)
         IN IF p1.Win = p2.Win THEN stats
            ELSE Bump(Bump(stats, MatchupStatsKey(patch, p1, p2), p1.Win),
                      MatchupStatsKey(patch, p2, p1), p2.Win)

\* the merge of a file's stats into the bundle's
MergeStats(existing, v) ==
    [k \in DOMAIN existing \cup DOMAIN v |->
        IF k \notin DOMAIN v THEN existing[k]
        ELSE IF k \notin DOMAIN existing THEN v[k]
        ELSE [Wins |-> existing[k].Wins + v[k].Wins,
              Matches |-> existing[k].Matches + v[k].Matches]]

\* agg := &AggData{...}
NewAggData ==
    [ChampionStats |-> NoStats, ItemStats |-> NoStats, ItemSlotStats |-> NoStats,
     MatchupStats |-> NoStats, FilesProcessed |-> 0, TotalRecords |-> 0,
     DetectedPatch |-> <<>>]

AGIdle ==
    [pc |-> "idle", files |-> <<>>, i |-> 0, pos |-> 0, file |-> NoFile,
     todo |-> {},        \* the <<match id, position>> the second pass has still to visit
     agg |-> NewAggData,
     skipped |-> {},     \* the files the latest call has skipped
     counted |-> {},     \* the files the latest call has merged into the bundle
     runs |-> <<>>]      \* the bundles the calls have returned

\* what the steps of the aggregator leave alone
nonAG == <<smVars, wcVars, wlVars, orchVars, fsVars, arVars, rdVars, rotVars, tpVars,
           skVars, kwVars, wtVars>>

\* filePath of the aggregateFile call in progress
FilePath == ag.files[ag.i]

\* AggregateWarmFiles: files, err := filepath.Glob(warm/*.jsonl)
AGCall ==
    /\ ag.pc = "idle"
    /\ Len(ag.runs) < MaxAggregateCalls
    /\ ag' = [AGIdle EXCEPT !.pc = "Open", !.files = Glob(warm), !.i = 1, !.runs = ag.runs]
    /\ UNCHANGED nonAG

\* aggregateFile: file, err := os.Open(filePath)
AGOpen ==
    /\ ag.pc = "Open"
    /\ ag.i <= Len(ag.files)
    /\ FilePath \in DOMAIN warm
    /\ ag' = [ag EXCEPT !.pc = "Scan", !.pos = 1, !.file = NoFile]
    /\ UNCHANGED nonAG

\* os.Open fails: aggregateFile returns the error, the caller goes on with
\* the next file
AGOpenFail ==
    /\ ag.pc = "Open"
    /\ ag.i <= Len(ag.files)
    /\ ag' = [ag EXCEPT !.i = @ + 1, !.skipped = @ \cup {FilePath}]
    /\ UNCHANGED nonAG

\* scanner.Scan() yields a line: json.Unmarshal, then the body of the loop
AGScan ==
    /\ ag.pc = "Scan"
    /\ ag.pos <= Len(warm[FilePath])
    /\ warm[FilePath][ag.pos].form # "oversize"
    /\ ag' = [ag EXCEPT
                !.pos = @ + 1,
                !.file = IF warm[FilePath][ag.pos].form = "json"
                         THEN ScanMatch(@, warm[FilePath][ag.pos])
                         ELSE @]
    /\ UNCHANGED nonAG

\* scanner.Scan() stops at a line longer than its buffer: scanner.Err() is
\* not nil, aggregateFile returns it, the caller goes on with the next file
AGScanErr ==
    /\ ag.pc = "Scan"
    /\ ag.pos <= Len(warm[FilePath])
    /\ warm[FilePath][ag.pos].form = "oversize"
    /\ ag' = [ag EXCEPT !.pc = "Open", !.i = @ + 1, !.skipped = @ \cup {FilePath}]
    /\ UNCHANGED nonAG

\* the scan has reached the end of the file: the second pass begins
AGScanEnd ==
    /\ ag.pc = "Scan"
    /\ ag.pos > Len(warm[FilePath])
    /\ ag' = [ag EXCEPT
                !.pc = "Matchups",
                !.todo = Groups(ag.file.groups)]
    /\ UNCHANGED nonAG

\* the second pass visits one position of one match; the maps are ranged
\* over in any order
AGMatchup ==
    /\ ag.pc = "Matchups"
    /\ \E g \in ag.todo :
        ag' = [ag EXCEPT
                 !.todo = @ \ {g},
                 !.file.matchup = Matchup(@, PosPlayers(ag.file.groups[g[1]], g[2]))]
    /\ UNCHANGED nonAG

\* aggregateFile returns; AggregateWarmFiles merges the file's stats
AGMerge ==
    /\ ag.pc = "Matchups"
    /\ ag.todo = {}
    /\ ag' = [ag EXCEPT
                !.pc = "Open",
                !.i = @ + 1,
                !.counted = @ \cup {FilePath},
                !.agg = [FilesProcessed |-> @.FilesProcessed + 1,
                         TotalRecords |-> @.TotalRecords + ag.file.records,
                         DetectedPatch |-> IF ag.file.patch # <<>> THEN ag.file.patch
                                           ELSE @.DetectedPatch,
                         ChampionStats |-> MergeStats(@.ChampionStats, ag.file.champ),
                         ItemStats |-> MergeStats(@.ItemStats, ag.file.item),
                         ItemSlotStats |-> MergeStats(@.ItemSlotStats, ag.file.slot),
                         MatchupStats |-> MergeStats(@.MatchupStats, ag.file.matchup)]]
    /\ UNCHANGED nonAG

\* return agg, nil
AGReturn ==
    /\ ag.pc = "Open"
    /\ ag.i > Len(ag.files)
    /\ ag' = [ag EXCEPT !.pc = "idle", !.runs = Append(@, ag.agg)]
    /\ UNCHANGED nonAG

(* ----------------------- rotations and the reducer --------------------- *)

NoJob == [stage |-> "none", file |-> 0]

NoReduceHist ==
    [rotations |-> 0,      \* rotations begun so far
     reduces |-> 0,        \* reduces begun so far
     atLock |-> EmptyDir,  \* the warm directory when the latest reduce got the lock
     enumerated |-> {},    \* the files the aggregator of the latest reduce enumerated
     archived |-> {},      \* the files the archiver of the latest reduce removed from warm
     deferred |-> {}]      \* files whose rotation was under way while the latest reduce held the lock

NewReducer ==
    /\ job = [t \in Threads |-> NoJob]
    /\ rdHist = NoReduceHist
    /\ ag = AGIdle

HoldsRLockNever(t) == lk[t].pc = "idle"

\* warmLock.RLock() has returned to goroutine t
HoldsRLock(t) == lk[t].pc = "idle" /\ lk[t].held = "read"

\* warmLock.Lock() has returned to goroutine t
HoldsLock(t) == lk[t].pc = "idle" /\ lk[t].held = "write"

\* the collector is about to rotate: the file to insert is sealed, its name
\* carries the rotation's time stamp
RTStart(t) ==
    /\ job[t] = NoJob /\ lk[t] = LKIdle
    /\ rdHist.rotations < MaxRotations
    /\ job' = [job EXCEPT ![t] = [stage |-> "RLock", file |-> MaxFiles + rdHist.rotations + 1]]
    /\ rdHist' = [rdHist EXCEPT
                    !.rotations = @ + 1,
                    !.deferred = IF \E w \in Threads : lk[w].held = "write"
                                 THEN @ \cup {JsonlName(MaxFiles + rdHist.rotations + 1)}
                                 ELSE @]
    /\ UNCHANGED <<fsVars, arVars, wlVars>>
    /\ UNCHANGED nonRD

\* warmLock.RLock()
RTLockCall(t) ==
    /\ job[t].stage = "RLock"
    /\ lk[t] = LKIdle
    /\ WLRLockAdd(t)

\* the warm insert: the file appears in warm
RTInsert(t) ==
    /\ job[t].stage = "RLock"
    /\ HoldsRLock(t)
    /\ warm' = Put(warm, JsonlName(job[t].file), <<1>>)
    /\ job' = [job EXCEPT ![t].stage = "RUnlock"]
    /\ UNCHANGED <<cold, arVars, wlVars, rdHist>>
    /\ UNCHANGED nonRD

\* warmLock.RUnlock()
RTUnlockCall(t) ==
    /\ job[t].stage = "RUnlock"
    /\ HoldsRLock(t)
    /\ WLRUnlockActive(t)

RTDone(t) ==
    /\ job[t].stage = "RUnlock"
    /\ lk[t] = LKIdle
    /\ job' = [job EXCEPT ![t] = NoJob]
    /\ UNCHANGED <<fsVars, arVars, wlVars, rdHist>>
    /\ UNCHANGED nonRD

\* a reduce begins on goroutine t
RDStart(t) ==
    /\ job[t] = NoJob /\ lk[t] = LKIdle
    /\ rdHist.reduces < MaxArchiveCalls
    /\ job' = [job EXCEPT ![t].stage = "Lock"]
    /\ rdHist' = [rdHist EXCEPT !.reduces = @ + 1]
    /\ UNCHANGED <<fsVars, arVars, wlVars>>
    /\ UNCHANGED nonRD

\* warmLock.Lock()
RDLockCall(t) ==
    /\ job[t].stage = "Lock"
    /\ lk[t] = LKIdle
    /\ WLLockCall(t)

\* AggregateWarmFiles: files, err := filepath.Glob(warm/*.jsonl)
RDAggregate(t) ==
    /\ job[t].stage = "Lock"
    /\ HoldsLock(t)
    /\ job' = [job EXCEPT ![t].stage = "Archive"]
    /\ rdHist' = [rdHist EXCEPT
                    !.atLock = warm,
                    !.enumerated = JsonlFiles(warm),
                    !.archived = {},
                    !.deferred = {JsonlName(job[u].file) : u \in {v \in Threads : job[v].stage = "RLock"}}]
    /\ UNCHANGED <<fsVars, arVars, wlVars>>
    /\ UNCHANGED nonRD

\* ArchiveWarmToCold(warmDir, coldDir)
RDArchiveCall(t) ==
    /\ job[t].stage = "Archive"
    /\ ar = ARIdle
    /\ ARCall

RDArchiveReturn(t) ==
    /\ job[t].stage = "Archive"
    /\ ar.pc = "idle" /\ ar.ret # "none"
    /\ job' = [job EXCEPT ![t].stage = "Unlock"]
    /\ ar' = ARIdle
    /\ rdHist' = [rdHist EXCEPT !.archived = DOMAIN rdHist.atLock \ DOMAIN warm]
    /\ UNCHANGED <<fsVars, arHist, wlVars>>
    /\ UNCHANGED nonRD

\* warmLock.Unlock()
RDUnlockCall(t) ==
    /\ job[t].stage = "Unlock"
    /\ HoldsLock(t)
    /\ WLUnlockAdd(t)

RDDone(t) ==
    /\ job[t].stage = "Unlock"
    /\ lk[t] = LKIdle
    /\ job' = [job EXCEPT ![t] = NoJob]
    /\ UNCHANGED <<fsVars, arVars, wlVars, rdHist>>
    /\ UNCHANGED nonRD

(* ------------------------------ FileRotator ----------------------------- *)

\* the goroutines that call the rotator: the crawler workers and the reducer
RotWriters == {1, 2}

Flusher == 3

RotThreads == RotWriters \cup {Flusher}

FWIdle == [pc |-> "idle", op |-> "none", rec |-> 0, ret |-> FALSE]

\* what FlushAndRotate found when it took the mutex (records since the previous
\* rotation, WriteLine calls begun, the warm directory, the hot file) and the
\* file it moved
NoFlush ==
    [since |-> 0, begun |-> 0, warmBefore |-> EmptyDir,
     name |-> JsonlName(0), content |-> <<>>, moved |-> <<>>]

NoRotHist ==
    [begun |-> 0,       \* WriteLine calls so far: the k-th call writes record k
     returned |-> {},   \* the records whose WriteLine has returned
     flushes |-> 0,     \* FlushAndRotate calls so far
     produced |-> <<>>, \* the rotations that moved a file to warm: its name, its content
     since |-> 0,       \* records appended to the hot file since the previous rotation
     seen |-> {},       \* FlushAndRotate under way: the records whose WriteLine had returned when it was called
     last |-> NoFlush,  \* FlushAndRotate under way: what it found when it got the mutex, what it moved
     increments |-> 0]  \* counter.Increment() calls of the reducer's goroutine

\* NewFileRotator(dataDir): hot/ holds one empty file named by the time of day
NewFileRotator ==
    /\ clock = 0
    /\ hot = Put(EmptyDir, JsonlName(0), <<>>)
    /\ rot = [mu |-> NoThread, file |-> JsonlName(0), matches |-> 0, opened |-> 0]
    /\ fw = [t \in RotThreads |-> FWIdle]
    /\ rotHist = NoRotHist

RotMuFreeAlways == TRUE

\* r.mu is free
RotMuFree == rot.mu = NoThread

HasRecordsAlways(file) == TRUE

\* the hot file contains at least one record
HasRecords(file) == Len(file) > 0

\* the records of a file, of a directory
RecordsOf(file) == {file[i] : i \in 1..Len(file)}

RecordsIn(dir) == UNION {RecordsOf(dir[n]) : n \in DOMAIN dir}

\* the wall clock advances by one second
Tick ==
    /\ clock < MaxClock
    /\ clock' = clock + 1
    /\ UNCHANGED <<hot, rot, fw, rotHist, warm>>
    /\ UNCHANGED nonROT

\* WriteLine(record) is called
FWWriteLineCall(t) ==
    /\ fw[t].pc = "idle"
    /\ rotHist.begun < MaxRecords
    /\ fw' = [fw EXCEPT ![t] = [pc |-> "Lock", op |-> "WriteLine", rec |-> rotHist.begun + 1, ret |-> FALSE]]
    /\ rotHist' = [rotHist EXCEPT !.begun = @ + 1]
    /\ UNCHANGED <<hot, rot, clock, warm>>
    /\ UNCHANGED nonROT

\* MatchComplete() is called
FWMatchCompleteCall(t) ==
    /\ fw[t].pc = "idle"
    /\ fw' = [fw EXCEPT ![t] = [pc |-> "Lock", op |-> "MatchComplete", rec |-> 0, ret |-> FALSE]]
    /\ UNCHANGED <<hot, rot, clock, rotHist, warm>>
    /\ UNCHANGED nonROT

\* FlushAndRotate() is called
FWFlushAndRotateCall(t) ==
    /\ fw[t].pc = "idle"
    /\ rotHist.flushes < MaxFlushes
    /\ fw' = [fw EXCEPT ![t] = [pc |-> "Lock", op |-> "FlushAndRotate", rec |-> 0, ret |-> FALSE]]
    /\ rotHist' = [rotHist EXCEPT !.flushes = @ + 1, !.seen = rotHist.returned]
    /\ UNCHANGED <<hot, rot, clock, warm>>
    /\ UNCHANGED nonROT

\* r.mu.Lock() of the three operations
FWLock(t) ==
    /\ fw[t].pc = "Lock"
    /\ RotMuFree
    /\ rot' = [rot EXCEPT !.mu = t]
    /\ fw' = [fw EXCEPT ![t].pc = CASE fw[t].op = "WriteLine" -> "Write"
                                    [] fw[t].op = "MatchComplete" -> "Count"
                                    [] OTHER -> "Rotate"]
    /\ rotHist' = IF fw[t].op = "FlushAndRotate"
                  THEN [rotHist EXCEPT !.last =
                          [since |-> rotHist.since, begun |-> rotHist.begun,
                           warmBefore |-> warm, name |-> rot.file,
                           content |-> IF rot.file \in DOMAIN hot THEN hot[rot.file] ELSE <<>>,
                           moved |-> <<>>]]
                  ELSE rotHist
    /\ UNCHANGED <<hot, clock, warm>>
    /\ UNCHANGED nonROT

\* WriteLine: the record is serialised as one line into the buffered writer,
\* and the buffer is flushed to the hot file
FWWrite(t) ==
    /\ fw[t].pc = "Write"
    /\ hot' = IF rot.file \in DOMAIN hot
              THEN [hot EXCEPT ![rot.file] = Append(@, fw[t].rec)]
              ELSE hot
    /\ rotHist' = [rotHist EXCEPT !.since = @ + 1]
    /\ fw' = [fw EXCEPT ![t].pc = "Unlock"]
    /\ UNCHANGED <<rot, clock, warm>>
    /\ UNCHANGED nonROT

\* MatchComplete: one more match in the file; the batch is full or the
\* rotation interval has elapsed: rotate
FWCount(t) ==
    /\ fw[t].pc = "Count"
    /\ rot' = [rot EXCEPT !.matches = @ + 1]
    /\ fw' = [fw EXCEPT ![t].pc =
                IF rot.matches + 1 >= MaxMatchesPerFile \/ clock - rot.opened >= RotationInterval
                THEN "Rotate" ELSE "Unlock"]
    /\ UNCHANGED <<hot, clock, rotHist, warm>>
    /\ UNCHANGED nonROT

\* the hot file is closed; with at least one record it is renamed into warm
\* under its own name, replacing a file of that name; without, it is deleted
FWRotate(t) ==
    /\ fw[t].pc = "Rotate"
    /\ LET name == rot.file
           file == IF name \in DOMAIN hot THEN hot[name] ELSE <<>>
       IN /\ hot' = Del(hot, name)
          /\ IF HasRecords(file)
             THEN /\ warm' = Put(warm, name, file)
                  /\ rotHist' = [rotHist EXCEPT
                                   !.produced = Append(@, [name |-> name, content |-> file]),
                                   !.last.moved = IF fw[t].op = "FlushAndRotate" THEN file ELSE @]
                  /\ fw' = [fw EXCEPT ![t].pc = "Open", ![t].ret = TRUE]
             ELSE /\ fw' = [fw EXCEPT ![t].pc = "Open", ![t].ret = FALSE]
                  /\ UNCHANGED <<warm, rotHist>>
    /\ UNCHANGED <<rot, clock>>
    /\ UNCHANGED nonROT

\* a new empty hot file is opened, named by the time of day
FWOpen(t) ==
    /\ fw[t].pc = "Open"
    /\ hot' = Put(hot, JsonlName(clock), <<>>)
    /\ rot' = [rot EXCEPT !.file = JsonlName(clock), !.matches = 0, !.opened = clock]
    /\ rotHist' = [rotHist EXCEPT !.since = 0]
    /\ fw' = [fw EXCEPT ![t].pc = "Unlock"]
    /\ UNCHANGED <<clock, warm>>
    /\ UNCHANGED nonROT

\* r.mu.Unlock() and return, of WriteLine and of MatchComplete
FWUnlock(t) ==
    /\ fw[t].pc = "Unlock"
    /\ fw[t].op # "FlushAndRotate"
    /\ rot' = [rot EXCEPT !.mu = IF @ = t THEN NoThread ELSE @]
    /\ fw' = [fw EXCEPT ![t] = FWIdle]
    /\ rotHist' = IF fw[t].op = "WriteLine"
                  THEN [rotHist EXCEPT !.returned = @ \cup {fw[t].rec}]
                  ELSE rotHist
    /\ UNCHANGED <<hot, clock, warm>>
    /\ UNCHANGED nonROT

\* r.mu.Unlock() of FlushAndRotate: return rotated, nil
FWFlushAndRotateReturn(t) ==
    /\ fw[t].pc = "Unlock"
    /\ fw[t].op = "FlushAndRotate"
    /\ rot' = [rot EXCEPT !.mu = IF @ = t THEN NoThread ELSE @]
    /\ fw' = [fw EXCEPT ![t].pc = "Returned"]
    /\ rotHist' = [rotHist EXCEPT !.seen = {}, !.last = NoFlush]
    /\ UNCHANGED <<hot, clock, warm>>
    /\ UNCHANGED nonROT

\* the caller: if rotated { counter.Increment() }
FlusherCount(t) ==
    /\ fw[t].pc = "Returned"
    /\ fw' = [fw EXCEPT ![t] = FWIdle]
    /\ rotHist' = [rotHist EXCEPT !.increments = IF fw[t].ret THEN @ + 1 ELSE @]
    /\ UNCHANGED <<hot, rot, clock, warm>>
    /\ UNCHANGED nonROT

(* ------------------------------ TursoPusher ----------------------------- *)

\* the goroutines that call Start, Push and Wait
PushCallers == {1, 2}

PTIdle == [pc |-> "idle", op |-> "none", data |-> 0]

\* a processLoop goroutine as `go t.processLoop(ctx)` launches it
NewWorker == [pc |-> "select", drain |-> FALSE, data |-> 0]

NoPushHist ==
    [calls |-> 0,       \* Start and Wait calls so far
     pushes |-> 0,      \* Push calls so far: the k-th call carries bundle k
     accepted |-> <<>>, \* the bundles the queue took, in the order it took them
     delivered |-> <<>>,\* the bundles passed to pusher.PushAggData, in order
     panicked |-> FALSE]\* a send on or a close of the closed channel happened

\* NewTursoPusherWithBuffer(pusher, bufferSize), and a live context
NewTursoPusher ==
    /\ tp = [started |-> FALSE, mu |-> NoThread, pushChan |-> <<>>, closed |-> FALSE, wg |-> 0]
    /\ ctxDone = FALSE
    /\ wk = <<>>
    /\ pt = [t \in PushCallers |-> PTIdle]
    /\ tpHist = NoPushHist

AlreadyStartedNever == FALSE

\* if t.started { return }
AlreadyStarted == tp.started

\* cancel() of the context given to Start and to Push
Cancel ==
    /\ ~ctxDone
    /\ ctxDone' = TRUE
    /\ UNCHANGED <<tp, wk, pt, tpHist>>
    /\ UNCHANGED nonTP

\* Start(ctx) is called: t.mu.Lock()
PTStartLock(t) ==
    /\ pt[t].pc = "idle"
    /\ tpHist.calls < MaxPusherCalls
    /\ tp.mu = NoThread
    /\ tp' = [tp EXCEPT !.mu = t]
    /\ pt' = [pt EXCEPT ![t] = [pc |-> "Started", op |-> "Start", data |-> 0]]
    /\ tpHist' = [tpHist EXCEPT !.calls = @ + 1]
    /\ UNCHANGED <<ctxDone, wk>>
    /\ UNCHANGED nonTP

\* if t.started { return }; t.started = true; t.wg.Add(1); go t.processLoop(ctx)
PTStartSpawn(t) ==
    /\ pt[t].pc = "Started"
    /\ IF AlreadyStarted
       THEN UNCHANGED <<tp, wk>>
       ELSE /\ tp' = [tp EXCEPT !.started = TRUE, !.wg = @ + 1]
            /\ wk' = Append(wk, NewWorker)
    /\ pt' = [pt EXCEPT ![t].pc = "Unlock"]
    /\ UNCHANGED <<ctxDone, tpHist>>
    /\ UNCHANGED nonTP

\* defer t.mu.Unlock()
PTStartUnlock(t) ==
    /\ pt[t].pc = "Unlock"
    /\ tp' = [tp EXCEPT !.mu = NoThread]
    /\ pt' = [pt EXCEPT ![t] = PTIdle]
    /\ UNCHANGED <<ctxDone, wk, tpHist>>
    /\ UNCHANGED nonTP

\* Push(ctx, data) is called
PTPushCall(t) ==
    /\ pt[t].pc = "idle"
    /\ tpHist.pushes < MaxPushes
    /\ pt' = [pt EXCEPT ![t] = [pc |-> "Select", op |-> "Push", data |-> tpHist.pushes + 1]]
    /\ tpHist' = [tpHist EXCEPT !.pushes = @ + 1]
    /\ UNCHANGED <<tp, ctxDone, wk>>
    /\ UNCHANGED nonTP

\* case t.pushChan <- data: return nil
PTPushSend(t) ==
    /\ pt[t].pc = "Select"
    /\ ~tp.closed
    /\ Len(tp.pushChan) < BufferSize
    /\ tp' = [tp EXCEPT !.pushChan = Append(@, pt[t].data)]
    /\ tpHist' = [tpHist EXCEPT !.accepted = Append(@, pt[t].data)]
    /\ pt' = [pt EXCEPT ![t] = PTIdle]
    /\ UNCHANGED <<ctxDone, wk>>
    /\ UNCHANGED nonTP

\* case <-ctx.Done(): return ctx.Err()
PTPushCancelled(t) ==
    /\ pt[t].pc = "Select"
    /\ ctxDone
    /\ pt' = [pt EXCEPT ![t] = PTIdle]
    /\ UNCHANGED <<tp, ctxDone, wk, tpHist>>
    /\ UNCHANGED nonTP

\* t.pushChan <- data on the closed channel: panic
PTPushPanic(t) ==
    /\ pt[t].pc = "Select"
    /\ tp.closed
    /\ pt' = [pt EXCEPT ![t].pc = "panic"]
    /\ tpHist' = [tpHist EXCEPT !.panicked = TRUE]
    /\ UNCHANGED <<tp, ctxDone, wk>>
    /\ UNCHANGED nonTP

\* Wait() is called: t.mu.Lock()
PTWaitLock(t) ==
    /\ pt[t].pc = "idle"
    /\ tpHist.calls < MaxPusherCalls
    /\ tp.mu = NoThread
    /\ tp' = [tp EXCEPT !.mu = t]
    /\ pt' = [pt EXCEPT ![t] = [pc |-> "Check", op |-> "Wait", data |-> 0]]
    /\ tpHist' = [tpHist EXCEPT !.calls = @ + 1]
    /\ UNCHANGED <<ctxDone, wk>>
    /\ UNCHANGED nonTP

\* if !t.started { t.mu.Unlock(); return }; t.mu.Unlock()
PTWaitCheck(t) ==
    /\ pt[t].pc = "Check"
    /\ tp' = [tp EXCEPT !.mu = NoThread]
    /\ pt' = [pt EXCEPT ![t] = IF tp.started THEN [@ EXCEPT !.pc = "Close"] ELSE PTIdle]
    /\ UNCHANGED <<ctxDone, wk, tpHist>>
    /\ UNCHANGED nonTP

\* close(t.pushChan); of a closed channel: panic
PTWaitClose(t) ==
    /\ pt[t].pc = "Close"
    /\ IF tp.closed
       THEN /\ pt' = [pt EXCEPT ![t].pc = "panic"]
            /\ tpHist' = [tpHist EXCEPT !.panicked = TRUE]
            /\ UNCHANGED tp
       ELSE /\ tp' = [tp EXCEPT !.closed = TRUE]
            /\ pt' = [pt EXCEPT ![t].pc = "WgWait"]
            /\ UNCHANGED tpHist
    /\ UNCHANGED <<ctxDone, wk>>
    /\ UNCHANGED nonTP

\* t.wg.Wait() returns
PTWgWait(t) ==
    /\ pt[t].pc = "WgWait"
    /\ tp.wg = 0
    /\ pt' = [pt EXCEPT ![t] = PTIdle]
    /\ UNCHANGED <<tp, ctxDone, wk, tpHist>>
    /\ UNCHANGED nonTP

\* processLoop / drainChannel: case data, ok := <-t.pushChan, ok
WKRecv(w) ==
    /\ wk[w].pc = "select"
    /\ tp.pushChan # <<>>
    /\ tp' = [tp EXCEPT !.pushChan = Tail(@)]
    /\ wk' = [wk EXCEPT ![w].pc = "push", ![w].data = Head(tp.pushChan)]
    /\ UNCHANGED <<ctxDone, pt, tpHist>>
    /\ UNCHANGED nonTP

\* processLoop / drainChannel: the channel is closed and empty: return, wg.Done()
WKClosed(w) ==
    /\ wk[w].pc = "select"
    /\ tp.pushChan = <<>> /\ tp.closed
    /\ wk' = [wk EXCEPT ![w].pc = "done"]
    /\ tp' = [tp EXCEPT !.wg = @ - 1]
    /\ UNCHANGED <<ctxDone, pt, tpHist>>
    /\ UNCHANGED nonTP

\* processLoop: case <-ctx.Done(): t.drainChannel()
WKCtxDone(w) ==
    /\ wk[w].pc = "select"
    /\ ~wk[w].drain
    /\ ctxDone
    /\ wk' = [wk EXCEPT ![w].drain = TRUE]
    /\ UNCHANGED <<tp, ctxDone, pt, tpHist>>
    /\ UNCHANGED nonTP

\* drainChannel: default: return; processLoop returns, wg.Done()
WKDrainDefault(w) ==
    /\ wk[w].pc = "select"
    /\ wk[w].drain
    /\ tp.pushChan = <<>> /\ ~tp.closed
    /\ wk' = [wk EXCEPT ![w].pc = "done"]
    /\ tp' = [tp EXCEPT !.wg = @ - 1]
    /\ UNCHANGED <<ctxDone, pt, tpHist>>
    /\ UNCHANGED nonTP

\* t.pusher.PushAggData(context.Background(), data) is called
WKPushCall(w) ==
    /\ wk[w].pc = "push"
    /\ tpHist' = [tpHist EXCEPT !.delivered = Append(@, wk[w].data)]
    /\ wk' = [wk EXCEPT ![w].pc = "pushing"]
    /\ UNCHANGED <<tp, ctxDone, pt>>
    /\ UNCHANGED nonTP

\* PushAggData returns; its error is discarded
WKPushReturn(w) ==
    /\ wk[w].pc = "pushing"
    /\ wk' = [wk EXCEPT ![w].pc = "select", ![w].data = 0]
    /\ UNCHANGED <<tp, ctxDone, pt, tpHist>>
    /\ UNCHANGED nonTP

\* 7 RemotePusher.Push(bundle): the orchestrator calls Push, as caller t
ORPushCall(t) ==
    /\ orch.stage = "Push"
    /\ tpHist.pushes = orch.resetsSeen
    /\ \A u \in PushCallers : pt[u].pc = "idle"
    /\ PTPushCall(t)

\* Push has returned: the bundle is in the queue
ORPushReturn ==
    /\ orch.stage = "Push"
    /\ tpHist.pushes > orch.resetsSeen
    /\ \A u \in PushCallers : pt[u].pc = "idle"
    /\ orch' = [orch EXCEPT !.stage = "Reset"]
    /\ UNCHANGED <<smVars, wcVars, wlVars, trig, extVars>>

(* ------------------------- InMemoryPusher (the sink) -------------------- *)

\* the tables PushAggData writes
Tables == {"champion_stats", "champion_items", "champion_matchups"}

\* the composite keys (patch, champion, position, and item or enemy)
Keys == {"15.24/103/MIDDLE"}

\* ChampionStats, ItemStats, MatchupStats: Wins and Matches of one key, as the
\* aggregator counts them (a key has at least one match, wins among them)
Rows == UNION {[Wins : 0..m, Matches : {m}] : m \in 1..MaxDelta}

NoRows == <<>>

\* the content of one table, or one map of an AggData: key -> row
TableContents == UNION {[K -> Rows] : K \in SUBSET Keys}

\* AggData, the maps PushAggData reads: the map that goes to each table
Bundles == [Tables -> TableContents]

\* the tables as CREATE TABLE leaves them
EmptyDB == [t \in Tables |-> NoRows]

NoSink == [calls |-> 0, pushes |-> 0, ret |-> "none", prior |-> EmptyDB]

\* NewInMemoryPusher(), and a caller that holds an AggData with empty maps
NewInMemoryPusher ==
    /\ db = EmptyDB
    /\ agg = EmptyDB
    /\ sk = NoSink

\* wins + excluded.wins, matches + excluded.matches
Accumulate(row, excluded) ==
    [Wins |-> row.Wins + excluded.Wins, Matches |-> row.Matches + excluded.Matches]

UpsertReplace(table, data) ==
    [k \in DOMAIN table \cup DOMAIN data |->
        IF k \in DOMAIN data THEN data[k] ELSE table[k]]

\* for k, v := range data: INSERT INTO table VALUES (k, v)
\* ON CONFLICT(k) DO UPDATE SET wins = wins + excluded.wins,
\* matches = matches + excluded.matches
Upsert(table, data) ==
    [k \in DOMAIN table \cup DOMAIN data |->
        IF k \notin DOMAIN data THEN table[k]
        ELSE IF k \in DOMAIN table THEN Accumulate(table[k], data[k])
        ELSE data[k]]

\* PushAggData(ctx, data): the three loops run and tx.Commit() returns nil
SKPush ==
    /\ sk.calls < MaxSinkPushes
    /\ db' = [t \in Tables |-> Upsert(db[t], agg[t])]
    /\ sk' = [sk EXCEPT !.calls = @ + 1, !.pushes = @ + 1, !.ret = "nil"]
    /\ UNCHANGED agg
    /\ UNCHANGED nonSK

\* PushAggData(ctx, data): BeginTx, an ExecContext or Commit returns an error;
\* the deferred tx.Rollback() undoes what the transaction wrote
SKPushFail ==
    /\ sk.calls < MaxSinkPushes
    /\ sk' = [sk EXCEPT !.calls = @ + 1, !.ret = "err"]
    /\ UNCHANGED <<db, agg>>
    /\ UNCHANGED nonSK

NewStorage ==
    /\ NewDirectories /\ NewArchiver /\ NewReducer /\ NewFileRotator /\ NewTursoPusher
    /\ NewInMemoryPusher
    /\ NewSession

(* ---- scenario: goroutines calling Increment and Reset concurrently ---- *)

InitWC ==
    /\ SMInit /\ NewWarmLock /\ NewOrchestrator /\ NewStorage
    /\ \E cb \in BOOLEAN : NewWarmFileCounter(cb)

NextWC ==
    \/ \E t \in CounterThreads : WCAdd(t)
    \/ \E t \in CounterThreads : WCCheckSkip(t)
    \/ \E t \in CounterThreads : WCCheckPass(t)
    \/ \E t \in CounterThreads : WCLock(t)
    \/ \E t \in CounterThreads : WCRecheck(t)
    \/ \E t \in CounterThreads : WCCallback(t)
    \/ \E t \in CounterThreads : WCUnlock(t)
    \/ \E t \in CounterThreads : WCResetLock(t)
    \/ \E t \in CounterThreads : WCResetCount(t)
    \/ \E t \in CounterThreads : WCResetFired(t)
    \/ \E t \in CounterThreads : WCResetUnlock(t)

SpecWC == InitWC /\ [][NextWC]_vars

(* ---- scenario: goroutines taking and releasing the warm lock ---------- *)

InitWL ==
    SMInit /\ NewWarmFileCounter(TRUE) /\ NewWarmLock /\ NewOrchestrator /\ NewStorage

NextWL ==
    \/ \E t \in LockThreads : WLRLockAdd(t)
    \/ \E t \in LockThreads : WLRLockSem(t)
    \/ \E t \in LockThreads : WLRLockMetrics(t)
    \/ \E t \in LockThreads : WLRLockActive(t)
    \/ \E t \in LockThreads : WLRUnlockActive(t)
    \/ \E t \in LockThreads : WLRUnlockAdd(t)
    \/ \E t \in LockThreads : WLRUnlockSlow(t)
    \/ \E t \in LockThreads : WLLockCall(t)
    \/ \E t \in LockThreads : WLLockW(t)
    \/ \E t \in LockThreads : WLLockAnnounce(t)
    \/ \E t \in LockThreads : WLLockWait(t)
    \/ \E t \in LockThreads : WLLockSem(t)
    \/ \E t \in LockThreads : WLLockMetrics(t)
    \/ \E t \in LockThreads : WLUnlockAdd(t)
    \/ \E t \in LockThreads : WLUnlockWake(t)
    \/ \E t \in LockThreads : WLUnlockW(t)

SpecWL == InitWL /\ [][NextWL]_vars

(* ---- scenario: the warm lock is used while its metrics are read and reset - *)

NextWM ==
    \/ NextWL
    \/ WLResetMetrics

SpecWM == InitWL /\ [][NextWM]_vars

(* ---- scenario: reader goroutines and writer goroutines, fair scheduling - *)

\* the goroutines that call Lock and Unlock in a loop
LockWriters == 1..(NumLockThreads \div 2)

\* the goroutines that call RLock and RUnlock in a loop
LockReaders == LockThreads \ LockWriters

\* the steps of goroutine t inside a call, and its releases; the three
\* sleeps (readerSem, rw.w, writerSem) are the steps another goroutine can
\* take the chance of, all others stay enabled until t takes them
WLProceed(t) ==
    \/ WLRLockSem(t)
    \/ WLRLockMetrics(t)
    \/ WLRLockActive(t)
    \/ WLRUnlockActive(t)
    \/ WLRUnlockAdd(t)
    \/ WLRUnlockSlow(t)
    \/ WLLockW(t)
    \/ WLLockAnnounce(t)
    \/ WLLockWait(t)
    \/ WLLockSem(t)
    \/ WLLockMetrics(t)
    \/ WLUnlockAdd(t)
    \/ WLUnlockWake(t)
    \/ WLUnlockW(t)

NextWLFair ==
    \/ \E t \in LockReaders : WLRLockAdd(t)
    \/ \E t \in LockWriters : WLLockCall(t)
    \/ \E t \in LockThreads : WLProceed(t)

\* the scheduler runs every runnable goroutine, every holder releases, and
\* the runtime's semaphore queues and the mutex's starvation mode serve every
\* sleeper that is offered a wake-up again and again
FairWL == \A t \in LockThreads : SF_vars(WLProceed(t))

SpecWLFair == InitWL /\ [][NextWLFair]_vars /\ FairWL

(* ---- scenario: goroutines calling the state machine's operations ------ *)

Init ==
    SMInit /\ NewWarmFileCounter(TRUE) /\ NewWarmLock /\ NewOrchestrator /\ NewStorage

Next ==
    \/ \E t \in Callers, to \in States : CallTransitionTo(t, to)
    \/ \E t \in Callers : CallTryTransitionToReducing(t)
    \/ \E t \in Callers : SMLoad(t)
    \/ \E t \in Callers : SMReject(t)
    \/ \E t \in Callers : SMStore(t)
    \/ \E t \in Callers : SMNotify(t)
    \/ \E t \in Callers : OnTransition(t)

Spec == Init /\ [][Next]_vars

(* ---- scenario: N goroutines race on TryTransitionToReducing ----------- *)

\* NewStateMachine, then setState(s) of the tests
InitRace ==
    /\ state \in States
    /\ smMu = NoThread
    /\ callback = FALSE
    /\ sm = [t \in Threads |-> IdleFrame]
    /\ cbLast = <<>>
    /\ smErr = NoErr
    /\ NewCond
    /\ NewWarmFileCounter(TRUE)
    /\ NewWarmLock
    /\ NewOrchestrator
    /\ NewStorage

\* each racer calls TryTransitionToReducing once
RaceCall(t) ==
    /\ sm[t].ret = "none"
    /\ CallTryTransitionToReducing(t)

NextRace ==
    \/ \E t \in Racers : RaceCall(t)
    \/ \E t \in Racers : SMLoad(t)
    \/ \E t \in Racers : SMReject(t)
    \/ \E t \in Racers : SMStore(t)
    \/ \E t \in Racers : SMNotify(t)

SpecRace == InitRace /\ [][NextRace]_vars

(* ---- scenario: a session, the trigger sources and the orchestrator ----- *)

OrchThreads == 1..NumSessionThreads

InitOrch ==
    SMInit /\ NewWarmFileCounter(TRUE) /\ NewWarmLock /\ NewOrchestrator /\ NewStorage

NextOrch ==
    \/ ORBootCall
    \/ ORBootReturn
    \/ ORIncrement
    \/ WCCheckSkip(Rotation)
    \/ WCCheckPass(Rotation)
    \/ WCLock(Rotation)
    \/ WCRecheck(Rotation)
    \/ ORCallbackCall(Rotation)
    \/ ORCallbackReturn(Rotation)
    \/ WCUnlock(Rotation)
    \/ ORKeyExpiryError
    \/ ORShutdownSignal
    \/ \E t \in Triggers : ORTryCall(t)
    \/ \E t \in Triggers : ORTryReturn(t)
    \/ \E t \in OrchThreads : SMLoad(t)
    \/ \E t \in OrchThreads : SMReject(t)
    \/ \E t \in OrchThreads : SMStore(t)
    \/ \E t \in OrchThreads : SMNotify(t)
    \/ ORStartReduce
    \/ ORStep
    \/ ORLockCall
    \/ WLLockW(Orch)
    \/ WLLockAnnounce(Orch)
    \/ WLLockMetrics(Orch)
    \/ ORLockReturn
    \/ ORUnlockCall
    \/ WLUnlockW(Orch)
    \/ ORUnlockReturn
    \/ ORPushingCall
    \/ ORPushingReturn
    \/ ORResetCall
    \/ WCResetCount(Orch)
    \/ WCResetFired(Orch)
    \/ WCResetUnlock(Orch)
    \/ ORResetReturn
    \/ ORNextCall
    \/ ORNextReturn
    \/ ORShutdownCall
    \/ ORShutdownReturn

SpecOrch == InitOrch /\ [][NextOrch]_vars

(* ---- scenario: a session whose crawler fails with errors of every kind -- *)

NextCrawl ==
    \/ ORBootCall
    \/ ORBootReturn
    \/ ORIncrement
    \/ WCCheckSkip(Rotation)
    \/ WCCheckPass(Rotation)
    \/ WCLock(Rotation)
    \/ WCRecheck(Rotation)
    \/ ORCallbackCall(Rotation)
    \/ ORCallbackReturn(Rotation)
    \/ WCUnlock(Rotation)
    \/ \E err \in Errors : ORCrawlerError(err)
    \/ ORHandleCall
    \/ ORTryReturn(ErrorHandler)
    \/ ORHandleRetry
    \/ \E t \in OrchThreads : SMLoad(t)
    \/ \E t \in OrchThreads : SMReject(t)
    \/ \E t \in OrchThreads : SMStore(t)
    \/ \E t \in OrchThreads : SMNotify(t)
    \/ ORStartReduce
    \/ ORStep
    \/ ORLockCall
    \/ WLLockW(Orch)
    \/ WLLockAnnounce(Orch)
    \/ WLLockMetrics(Orch)
    \/ ORLockReturn
    \/ ORUnlockCall
    \/ WLUnlockW(Orch)
    \/ ORUnlockReturn
    \/ ORPushingCall
    \/ ORPushingReturn
    \/ ORResetCall
    \/ WCResetCount(Orch)
    \/ WCResetFired(Orch)
    \/ WCResetUnlock(Orch)
    \/ ORResetReturn
    \/ ORNextCall
    \/ ORNextReturn

SpecCrawl == InitOrch /\ [][NextCrawl]_vars

(* ---- scenario: a session whose only trigger is the warm-file threshold -- *)

\* the goroutines of the scenario
ThresholdThreads == {Rotation, Orch}

NextThreshold ==
    \/ ORBootCall
    \/ ORBootReturn
    \/ ORIncrement
    \/ WCCheckSkip(Rotation)
    \/ WCCheckPass(Rotation)
    \/ WCLock(Rotation)
    \/ WCRecheck(Rotation)
    \/ ORCallbackCall(Rotation)
    \/ ORCallbackReturn(Rotation)
    \/ WCUnlock(Rotation)
    \/ \E t \in ThresholdThreads : SMLoad(t)
    \/ \E t \in ThresholdThreads : SMReject(t)
    \/ \E t \in ThresholdThreads : SMStore(t)
    \/ \E t \in ThresholdThreads : SMNotify(t)
    \/ ORStartReduce
    \/ ORStep
    \/ ORLockCall
    \/ WLLockW(Orch)
    \/ WLLockAnnounce(Orch)
    \/ WLLockMetrics(Orch)
    \/ ORLockReturn
    \/ ORUnlockCall
    \/ WLUnlockW(Orch)
    \/ ORUnlockReturn
    \/ ORPushingCall
    \/ ORPushingReturn
    \/ ORResetCall
    \/ WCResetCount(Orch)
    \/ WCResetFired(Orch)
    \/ WCResetUnlock(Orch)
    \/ ORResetReturn
    \/ ORNextCall
    \/ ORNextReturn

SpecThreshold == InitOrch /\ [][NextThreshold]_vars

\* a step of the rotation goroutine: Increment and the callback's call
RotationStep ==
    \/ ORIncrement
    \/ WCCheckSkip(Rotation) \/ WCCheckPass(Rotation) \/ WCLock(Rotation)
    \/ WCRecheck(Rotation) \/ WCUnlock(Rotation)
    \/ ORCallbackCall(Rotation) \/ ORCallbackReturn(Rotation)
    \/ SMLoad(Rotation) \/ SMReject(Rotation) \/ SMStore(Rotation) \/ SMNotify(Rotation)

\* a step of the orchestrator: anything else
OrchStep == NextThreshold /\ ~RotationStep

\* both goroutines keep running
FairThreshold == WF_vars(RotationStep) /\ WF_vars(OrchStep)

SpecThresholdFair == SpecThreshold /\ FairThreshold

(* ---- scenario: ArchiveWarmToCold over a warm directory, with I/O errors - *)

\* the contents a warm file can have
Contents == UNION {[1..n -> 1..NumLines] : n \in 0..MaxLen}

\* a warm directory of the tests: MaxFiles *.jsonl files, each with the lines
\* c and a last line of its own, and possibly a file of another kind
WarmDir(c, other) ==
    [n \in {JsonlName(k) : k \in 1..MaxFiles} \cup (IF other THEN {OtherName(1)} ELSE {}) |->
        IF IsJsonl(n) THEN Append(c, n[1]) ELSE <<1>>]

WarmDirs == {WarmDir(c, other) : c \in Contents, other \in BOOLEAN}

InitArchive ==
    /\ SMInit /\ NewWarmFileCounter(TRUE) /\ NewWarmLock /\ NewOrchestrator
    /\ warm \in WarmDirs
    /\ cold = EmptyDir
    /\ NewArchiver
    /\ NewReducer
    /\ NewFileRotator
    /\ NewTursoPusher
    /\ NewInMemoryPusher
    /\ NewSession

NextArchive ==
    \/ ARCall
    \/ AROpen
    \/ AROpenFail
    \/ ARCreate
    \/ ARCreateFail
    \/ ARCopy
    \/ ARCopyFail
    \/ ARGzClose
    \/ ARGzCloseFail
    \/ ARCleanup
    \/ ARDstClose
    \/ ARDstCloseFail
    \/ ARRemove
    \/ ARRemoveFail

SpecArchive == InitArchive /\ [][NextArchive]_vars

(* ---- scenario: rotations under RLock while reduces run under Lock ------ *)

\* warm holds the files of earlier rotations and possibly a file of another kind
InitReduce ==
    /\ SMInit /\ NewWarmFileCounter(TRUE) /\ NewWarmLock /\ NewOrchestrator
    /\ warm = [n \in {JsonlName(i) : i \in 1..MaxFiles} \cup {OtherName(1)} |-> <<1>>]
    /\ cold = EmptyDir
    /\ NewArchiver
    /\ NewReducer
    /\ NewFileRotator
    /\ NewTursoPusher
    /\ NewInMemoryPusher
    /\ NewSession

\* the steps inside the lock's calls
WLInside(t) ==
    \/ WLRLockSem(t) \/ WLRLockMetrics(t) \/ WLRLockActive(t)
    \/ WLRUnlockAdd(t) \/ WLRUnlockSlow(t)
    \/ WLLockW(t) \/ WLLockAnnounce(t) \/ WLLockWait(t) \/ WLLockSem(t) \/ WLLockMetrics(t)
    \/ WLUnlockWake(t) \/ WLUnlockW(t)

NextReduce ==
    \/ \E t \in LockReaders : RTStart(t)
    \/ \E t \in LockReaders : RTLockCall(t)
    \/ \E t \in LockReaders : RTInsert(t)
    \/ \E t \in LockReaders : RTUnlockCall(t)
    \/ \E t \in LockReaders : RTDone(t)
    \/ \E t \in LockWriters : RDStart(t)
    \/ \E t \in LockWriters : RDLockCall(t)
    \/ \E t \in LockWriters : RDAggregate(t)
    \/ \E t \in LockWriters : RDArchiveCall(t)
    \/ \E t \in LockWriters : RDArchiveReturn(t)
    \/ \E t \in LockWriters : RDUnlockCall(t)
    \/ \E t \in LockWriters : RDDone(t)
    \/ \E t \in LockThreads : WLInside(t)
    \/ ARProceed

SpecReduce == InitReduce /\ [][NextReduce]_vars

(* ---- scenario: aggregateFile over one warm file of match records -------- *)

MatchIDs == {"M1", "M2"}

Positions == {"MIDDLE", "TOP"}

Champions == {1, 2}

\* the records the file is made of: participants with a position, and for
\* each match one without
MatchupLines ==
    {RawMatch(id, <<14, 23, 448>>, champ, pos, win, <<>>, <<>>) :
        id \in MatchIDs, champ \in Champions, pos \in Positions, win \in BOOLEAN}
    \cup {RawMatch(id, <<14, 23, 448>>, 1, "", TRUE, <<>>, <<>>) : id \in MatchIDs}

InitMatchup ==
    /\ SMInit /\ NewWarmFileCounter(TRUE) /\ NewWarmLock /\ NewOrchestrator
    /\ \E c \in UNION {[1..n -> MatchupLines] : n \in 0..MaxLines} :
          warm = [n \in {JsonlName(1)} |-> c]
    /\ cold = EmptyDir
    /\ NewArchiver /\ NewReducer /\ NewFileRotator /\ NewTursoPusher
    /\ NewInMemoryPusher
    /\ NewSession

NextMatchup ==
    \/ Len(ag.runs) = 0 /\ AGCall
    \/ AGOpen
    \/ AGScan
    \/ AGScanEnd
    \/ AGMatchup
    \/ AGMerge
    \/ AGReturn

SpecMatchup == InitMatchup /\ [][NextMatchup]_vars

(* ---- scenario: AggregateWarmFiles is called again over the same files --- *)

\* the participants of two matches in one role: the same two champions, the
\* winner of one match is the loser of the other; versions, items and build
\* orders differ
AggLines ==
    {RawMatch("M1", <<14, 23, 448>>, 1, "MIDDLE", TRUE, <<1, 1, 3>>, <<2, 0, 1>>),
     RawMatch("M1", <<14, 24, 1>>, 2, "MIDDLE", FALSE, <<2, 0>>, <<>>),
     RawMatch("M2", <<14, 23, 448>>, 1, "MIDDLE", FALSE, <<1>>, <<1>>),
     RawMatch("M2", <<14, 23, 448>>, 2, "MIDDLE", TRUE, <<>>, <<>>)}

\* the contents of the odd files
AggContents == UNION {[1..n -> AggLines] : n \in 0..MaxAggLines}

\* the contents of the even files: empty, with a line that is not JSON, with
\* a line longer than the scanner's buffer, two participants of one match
OtherContents ==
    {<<>>,
     <<Garbage, RawMatch("M1", <<14, 24, 1>>, 2, "MIDDLE", FALSE, <<2, 0>>, <<>>)>>,
     <<RawMatch("M1", <<14, 23, 448>>, 1, "MIDDLE", TRUE, <<1, 1, 3>>, <<2, 0, 1>>), Oversize>>,
     <<RawMatch("M1", <<14, 24, 1>>, 2, "MIDDLE", FALSE, <<2, 0>>, <<>>),
       RawMatch("M1", <<14, 23, 448>>, 1, "MIDDLE", TRUE, <<1, 1, 3>>, <<2, 0, 1>>)>>}

\* MaxFiles warm files: the odd ones hold c, the even ones d
AggDir(c, d) ==
    [n \in {JsonlName(k) : k \in 1..MaxFiles} |-> IF n[1] % 2 = 1 THEN c ELSE d]

InitAgg ==
    /\ SMInit /\ NewWarmFileCounter(TRUE) /\ NewWarmLock /\ NewOrchestrator
    /\ \E c \in AggContents, d \in OtherContents : warm = AggDir(c, d)
    /\ cold = EmptyDir
    /\ NewArchiver /\ NewReducer /\ NewFileRotator /\ NewTursoPusher
    /\ NewInMemoryPusher
    /\ NewSession

NextAgg ==
    \/ AGCall
    \/ AGOpen
    \/ AGScan
    \/ AGScanErr
    \/ AGScanEnd
    \/ AGMatchup
    \/ AGMerge
    \/ AGReturn

SpecAgg == InitAgg /\ [][NextAgg]_vars

(* ---- scenario: one reduce aggregates the warm files and archives them --- *)

\* step 3 of the reduce: AggregateWarmFiles(warmDir, itemFilter)
CoverAggregate ==
    /\ arHist.calls = 0 /\ Len(ag.runs) = 0
    /\ AGCall

\* step 4 of the reduce: ArchiveWarmToCold(warmDir, coldDir)
CoverArchive ==
    /\ arHist.calls = 0
    /\ ag.pc = "idle" /\ Len(ag.runs) = 1
    /\ ARCall

NextCover ==
    \/ CoverAggregate
    \/ AGOpen
    \/ AGOpenFail
    \/ AGScan
    \/ AGScanErr
    \/ AGScanEnd
    \/ AGMatchup
    \/ AGMerge
    \/ AGReturn
    \/ CoverArchive
    \/ AROpen
    \/ ARCreate
    \/ ARCopy
    \/ ARGzClose
    \/ ARDstClose
    \/ ARRemove

SpecCover == InitAgg /\ [][NextCover]_vars

(* ---- scenario: crawler workers write while the reducer flushes --------- *)

\* as TestFlushAndRotate_ConcurrentWrites: writer goroutines call WriteLine and
\* MatchComplete, the flusher goroutine calls FlushAndRotate and counts the
\* rotations, the clock runs
InitRotator ==
    SMInit /\ NewWarmFileCounter(TRUE) /\ NewWarmLock /\ NewOrchestrator /\ NewStorage

NextRotator ==
    \/ Tick
    \/ \E t \in RotWriters : FWWriteLineCall(t)
    \/ \E t \in RotWriters : FWMatchCompleteCall(t)
    \/ FWFlushAndRotateCall(Flusher)
    \/ \E t \in RotThreads : FWLock(t)
    \/ \E t \in RotThreads : FWWrite(t)
    \/ \E t \in RotThreads : FWCount(t)
    \/ \E t \in RotThreads : FWRotate(t)
    \/ \E t \in RotThreads : FWOpen(t)
    \/ \E t \in RotThreads : FWUnlock(t)
    \/ FWFlushAndRotateReturn(Flusher)
    \/ FlusherCount(Flusher)

SpecRotator == InitRotator /\ [][NextRotator]_vars

(* ---- scenario: goroutines call Start, Push and Wait; the context is cancelled - *)

InitPusher ==
    SMInit /\ NewWarmFileCounter(TRUE) /\ NewWarmLock /\ NewOrchestrator /\ NewStorage

NextPusher ==
    \/ Cancel
    \/ \E t \in PushCallers : PTStartLock(t)
    \/ \E t \in PushCallers : PTStartSpawn(t)
    \/ \E t \in PushCallers : PTStartUnlock(t)
    \/ \E t \in PushCallers : PTPushCall(t)
    \/ \E t \in PushCallers : PTPushSend(t)
    \/ \E t \in PushCallers : PTPushCancelled(t)
    \/ \E t \in PushCallers : PTPushPanic(t)
    \/ \E t \in PushCallers : PTWaitLock(t)
    \/ \E t \in PushCallers : PTWaitCheck(t)
    \/ \E t \in PushCallers : PTWaitClose(t)
    \/ \E t \in PushCallers : PTWgWait(t)
    \/ \E w \in DOMAIN wk : WKRecv(w)
    \/ \E w \in DOMAIN wk : WKClosed(w)
    \/ \E w \in DOMAIN wk : WKCtxDone(w)
    \/ \E w \in DOMAIN wk : WKDrainDefault(w)
    \/ \E w \in DOMAIN wk : WKPushCall(w)
    \/ \E w \in DOMAIN wk : WKPushReturn(w)

SpecPusher == InitPusher /\ [][NextPusher]_vars

(* ---- scenario: one AggData is pushed to the sink again and again ------- *)

\* the store holds what an earlier push of some AggData left, the caller
\* holds any AggData
InitSink ==
    /\ SMInit /\ NewWarmFileCounter(TRUE) /\ NewWarmLock /\ NewOrchestrator
    /\ NewDirectories /\ NewArchiver /\ NewReducer /\ NewFileRotator /\ NewTursoPusher
    /\ NewSession
    /\ db \in Bundles
    /\ agg \in Bundles
    /\ sk = [NoSink EXCEPT !.prior = db]

NextSink == SKPush \/ SKPushFail

SpecSink == InitSink /\ [][NextSink]_vars

(* ---- scenario: the machine waits for a key; candidates arrive ---------- *)

\* the identifiers the bloom filters may hold, the players the queue may hold
MatchIds == {"match1", "match2"}

Puuids == {"puuid1", "puuid2"}

Players == {TopSeed, "player1"}

Queues == UNION {[1..n -> Players] : n \in 0..MaxQueue}

\* the machine is in WAITING_FOR_KEY with the key-expiry latch set; the bloom
\* filters, the producer queue and the counter are as the session left them
InitKey ==
    /\ state = StateWaitingForKey
    /\ smMu = NoThread /\ callback = FALSE /\ cbLast = <<>> /\ smErr = NoErr
    /\ NewCond
    /\ sm = [t \in Threads |-> IdleFrame]
    /\ count \in 0..MaxCount
    /\ fired = ReachedThreshold(count)
    /\ wcMu = NoThread /\ wcCallback = TRUE /\ hist = NoHist
    /\ wc = [t \in Threads |-> WCIdle]
    /\ NewWarmLock
    /\ orch = [stage |-> "idle", req |-> FALSE, keyExpired |-> TRUE,
               stopped |-> FALSE, resetsSeen |-> 0]
    /\ trig = [t \in Threads |-> "none"]
    /\ NewDirectories /\ NewArchiver /\ NewReducer /\ NewFileRotator /\ NewTursoPusher
    /\ NewInMemoryPusher
    /\ sess \in [matchBloom : SUBSET MatchIds, puuidBloom : SUBSET Puuids, queue : Queues]
    /\ kp = [NoCandidate EXCEPT !.left = [sess |-> sess, count |-> count]]

NextKey ==
    \/ KWNotify
    \/ \E key \in Candidates : KWPoll(key)
    \/ KWValidate
    \/ KWTransitionCall
    \/ SMLoad(Orch)
    \/ SMStore(Orch)
    \/ SMNotify(Orch)
    \/ KWTransitionReturn
    \/ KWClear
    \/ KWResetCall
    \/ WCResetCount(Orch)
    \/ WCResetFired(Orch)
    \/ WCResetUnlock(Orch)
    \/ KWResetReturn
    \/ KWSeed

SpecKey == InitKey /\ [][NextKey]_vars

(* ---- scenario: reduces with the pusher's worker running ---------------- *)

\* a session whose pusher has been started: one worker waits on the queue
InitCycle ==
    /\ SMInit /\ NewWarmFileCounter(TRUE) /\ NewWarmLock /\ NewOrchestrator
    /\ NewDirectories /\ NewArchiver /\ NewReducer /\ NewFileRotator
    /\ tp = [started |-> TRUE, mu |-> NoThread, pushChan |-> <<>>, closed |-> FALSE, wg |-> 1]
    /\ ctxDone = FALSE
    /\ wk = <<NewWorker>>
    /\ pt = [t \in PushCallers |-> PTIdle]
    /\ tpHist = NoPushHist
    /\ NewInMemoryPusher
    /\ NewSession

NextCycle ==
    \/ ORBootCall
    \/ ORBootReturn
    \/ ORIncrement
    \/ WCCheckSkip(Rotation)
    \/ WCCheckPass(Rotation)
    \/ WCLock(Rotation)
    \/ WCRecheck(Rotation)
    \/ ORCallbackCall(Rotation)
    \/ ORCallbackReturn(Rotation)
    \/ WCUnlock(Rotation)
    \/ ORKeyExpiryError
    \/ ORTryCall(ErrorHandler)
    \/ ORTryReturn(ErrorHandler)
    \/ \E t \in OrchThreads : SMLoad(t)
    \/ \E t \in OrchThreads : SMReject(t)
    \/ \E t \in OrchThreads : SMStore(t)
    \/ \E t \in OrchThreads : SMNotify(t)
    \/ ORStartReduce
    \/ orch.stage # "Push" /\ ORStep
    \/ ORLockCall
    \/ WLLockW(Orch)
    \/ WLLockAnnounce(Orch)
    \/ WLLockMetrics(Orch)
    \/ ORLockReturn
    \/ ORUnlockCall
    \/ WLUnlockW(Orch)
    \/ ORUnlockReturn
    \/ ORPushingCall
    \/ ORPushingReturn
    \/ \E t \in PushCallers : ORPushCall(t)
    \/ \E t \in PushCallers : PTPushSend(t)
    \/ ORPushReturn
    \/ ORResetCall
    \/ WCResetCount(Orch)
    \/ WCResetFired(Orch)
    \/ WCResetUnlock(Orch)
    \/ ORResetReturn
    \/ ORNextCall
    \/ ORNextReturn
    \/ \E w \in DOMAIN wk : WKRecv(w)
    \/ \E w \in DOMAIN wk : WKPushCall(w)
    \/ \E w \in DOMAIN wk : WKPushReturn(w)

SpecCycle == InitCycle /\ [][NextCycle]_vars

(* ---- scenario: a goroutine waits for a state while others race to REDUCING - *)

\* NewStateMachine, then setState(s) of the tests; the clock is at 0
InitWait == InitRace

NextWait ==
    \/ \E target \in States, timeout \in Timeouts : WFCall(target, timeout)
    \/ WFCheck
    \/ WFUntil
    \/ WFWait
    \/ WFWake
    \/ WFSelect
    \/ \E i \in DOMAIN tm : TMBroadcast(i)
    \/ \E i \in DOMAIN tm : TMClose(i)
    \/ Tick
    \/ \E t \in Racers : RaceCall(t)
    \/ \E t \in Racers : SMLoad(t)
    \/ \E t \in Racers : SMReject(t)
    \/ \E t \in Racers : SMStore(t)
    \/ \E t \in Racers : SMNotify(t)

SpecWait == InitWait /\ [][NextWait]_vars

\* every goroutine that can take a step takes one in the end, and the clock
\* runs on; nobody is bound to call the state machine
FairWait ==
    /\ WF_vars(WFCheck \/ WFUntil \/ WFWait \/ WFWake \/ WFSelect)
    /\ WF_vars(\E i \in DOMAIN tm : TMBroadcast(i) \/ TMClose(i))
    /\ WF_vars(Tick)
    /\ WF_vars(\E t \in Racers : SMLoad(t) \/ SMReject(t) \/ SMStore(t) \/ SMNotify(t))

SpecWaitFair == SpecWait /\ FairWait

(* ---- scenario: the threshold callback calls back into the counter ------ *)

\* the frames that run Increment and Reset: the goroutines' own and the one
\* of the call made by the callback
CounterFrames == CounterThreads \cup {Inner}

\* the frame may begin a Reset: a goroutine at any time, the callback's frame
\* when the callback has called Reset
MayReset(t) == t = Inner => wc[Inner].op = "ResetCall"

InitCB ==
    /\ SMInit /\ NewWarmLock /\ NewOrchestrator /\ NewStorage
    /\ NewWarmFileCounter(TRUE)

NextCB ==
    \/ \E t \in CounterThreads : WCAdd(t)
    \/ \E t \in CounterFrames : WCCheckSkip(t)
    \/ \E t \in CounterFrames : WCCheckPass(t)
    \/ \E t \in CounterFrames : WCLock(t)
    \/ \E t \in CounterFrames : WCRecheck(t)
    \/ \E t \in CounterThreads : CBIncrement(t)
    \/ \E t \in CounterThreads : CBReset(t)
    \/ \E t \in CounterThreads : CBReturn(t)
    \/ \E t \in CounterThreads : WCCallback(t)
    \/ \E t \in CounterFrames : WCUnlock(t)
    \/ \E t \in CounterFrames : MayReset(t) /\ WCResetLock(t)
    \/ \E t \in CounterFrames : WCResetCount(t)
    \/ \E t \in CounterFrames : WCResetFired(t)
    \/ \E t \in CounterFrames : WCResetUnlock(t)

SpecCB == InitCB /\ [][NextCB]_vars

(* ------------------------- claims: StateMachine ------------------------ *)

\* the adjacency table as the specification states it
TableEdges ==
    {<<StateStartup, StateCollecting>>, <<StateStartup, StateShutdown>>,
     <<StateCollecting, StateReducing>>, <<StateCollecting, StateShutdown>>,
     <<StateReducing, StatePushing>>, <<StateReducing, StateShutdown>>,
     <<StatePushing, StateCollecting>>, <<StatePushing, StateWaitingForKey>>,
     <<StatePushing, StateShutdown>>,
     <<StateWaitingForKey, StateFreshRestart>>, <<StateWaitingForKey, StateShutdown>>,
     <<StateFreshRestart, StateStartup>>, <<StateFreshRestart, StateShutdown>>}

\* goroutine t leaves the point where its call decides (store or early return)
Decides(t, op) == sm[t].op = op /\ sm[t].pc = "Check" /\ sm'[t].pc # "Check"

\* goroutine t's call returns in this step
Returns(t, op) == sm[t].op = op /\ sm[t].pc # "idle" /\ sm'[t].pc = "idle"

RaceOver == \A t \in Racers : sm[t].pc = "idle" /\ sm[t].ret # "none"

Winners == {t \in Racers : sm[t].ret = "true"}

\* C2: TryTransitionToReducing is an atomic test-and-set. The call decides on the
\* state as it is at that moment: from COLLECTING it stores REDUCING and returns
\* true with the state REDUCING; from any other state it returns false and the
\* state is unchanged. When N callers race with nothing else in flight, the state
\* changes only by a racer's store from COLLECTING to REDUCING, at most one racer
\* has returned true at any time, and once all have returned the state is not
\* COLLECTING any more: a race from COLLECTING ends with exactly one true and the
\* state REDUCING, a race from another state with no true and the state as it was.
C2_TryIsAtomicTestAndSet ==
    /\ [](Cardinality(Winners) <= 1)
    /\ [](RaceOver => state # StateCollecting)
    /\ [](Winners # {} => state = StateReducing)
    /\ [][\A t \in Racers :
            /\ Decides(t, "Try") =>
                   IF state = StateCollecting
                   THEN state' = StateReducing /\ sm'[t].pc = "Notify"
                   ELSE state' = state /\ sm'[t].pc = "idle" /\ sm'[t].ret = "false"
            /\ (Returns(t, "Try") /\ sm[t].pc = "Notify") =>
                   sm'[t].ret = "true" /\ state' = StateReducing]_vars
    /\ [][state' # state =>
            /\ state = StateCollecting
            /\ state' = StateReducing
            /\ Winners = {}
            /\ \E t \in Racers : Decides(t, "Try")]_vars

\* C2 witness: a race from COLLECTING is over, one racer won and the others lost
C2_Witness ==
    /\ RaceOver
    /\ Cardinality(Winners) = 1
    /\ Cardinality({t \in Racers : sm[t].ret = "false"}) = NumRacers - 1
    /\ state = StateReducing

\* C3: the machine starts in STARTUP, and every change of the state, under any
\* interleaving of concurrent TransitionTo and TryTransitionToReducing callers, is
\* an edge of the adjacency table; SHUTDOWN has no edge out, so the state never
\* changes again once it is SHUTDOWN.
C3_TransitionsFollowTable ==
    /\ state = StateStartup
    /\ [][state' # state => <<state, state'>> \in TableEdges]_vars
    /\ [][state = StateShutdown => state' = StateShutdown]_vars

\* C3 witness: the machine went all the way round to FRESH_RESTART and was shut
\* down from there, and a later call out of SHUTDOWN has been refused
C3_Witness ==
    /\ state = StateShutdown
    /\ cbLast = <<StateFreshRestart, StateShutdown>>
    /\ \E t \in Callers : sm[t].ret = "err"
    /\ smErr # NoErr /\ smErr[1] = StateShutdown

\* C4: a TransitionTo(target) that finds the state s with <<s, target>> not an edge
\* of the table (target = s included) returns an InvalidTransitionError with From = s
\* and To = target, leaves the state unchanged and does not invoke the callback;
\* when <<s, target>> is an edge it does not return an error.
C4_InvalidTransitionRejected ==
    [][\A t \in Callers :
        Decides(t, "TransitionTo") =>
            IF <<state, sm[t].to>> \in TableEdges
            THEN sm'[t].pc = "Notify" /\ state' = sm[t].to
            ELSE /\ sm'[t].pc = "idle"
                 /\ sm'[t].ret = "err"
                 /\ smErr' = <<state, sm[t].to>>
                 /\ state' = state
                 /\ cbLast' = cbLast]_vars

\* C4 witness: with a callback registered and invoked before, a call has been
\* refused for naming the current state
C4_Witness ==
    /\ callback
    /\ cbLast # <<>>
    /\ state = StateCollecting
    /\ smErr = <<StateCollecting, StateCollecting>>
    /\ \E t \in Callers : sm[t].ret = "err"

\* goroutine t stores REDUCING in this step
StoresReducing(t) ==
    /\ sm[t].pc = "Check"
    /\ sm'[t].pc = "Notify"
    /\ sm[t].to = StateReducing

\* C5 as stated: the state becomes REDUCING only through TryTransitionToReducing.
C5_OnlyTryEntersReducing ==
    [][(state' = StateReducing /\ state # StateReducing) =>
        \E t \in Callers : StoresReducing(t) /\ sm[t].op = "Try"]_vars

\* C5 amended: the state becomes REDUCING only from COLLECTING and only by the call
\* that holds sm.mu with target REDUCING, which is TryTransitionToReducing or
\* TransitionTo(REDUCING); no other operation or target enters REDUCING.
C5_ReducingEnteredFromCollectingUnderMu ==
    [][(state' = StateReducing /\ state # StateReducing) =>
        /\ state = StateCollecting
        /\ \E t \in Callers :
            /\ StoresReducing(t)
            /\ smMu = t
            /\ sm[t].op \in {"Try", "TransitionTo"}]_vars

\* C5 witness: TransitionTo(REDUCING) has succeeded from COLLECTING
C5_Witness ==
    /\ state = StateReducing
    /\ callback
    /\ cbLast = <<StateCollecting, StateReducing>>
    /\ \E t \in Callers : sm[t].pc = "idle" /\ sm[t].ret = "nil"
    /\ \A t \in Callers : sm[t].ret # "true"


(* --------------------------- WarmFileCounter claims -------------------- *)

\* no Increment or Reset in progress
Quiescent == \A t \in Threads : wc[t].pc = "idle"

\* the Increments in flight whose add came after the last zeroing
InFlight == {t \in Threads : wc[t].op = "Increment" /\ ~wc[t].stale}

\* C6: the callback is invoked exactly once per Reset cycle: never twice in a
\* cycle, once in every cycle whose post-increment values reached the
\* threshold, and k cycles that reached it give k invocations.
C6_ExactlyOncePerCycle ==
    /\ [](hist.fires <= 1)
    /\ [](Quiescent /\ wcCallback /\ hist.reached => hist.fires = 1)
    /\ [](Quiescent /\ wcCallback => hist.invoked = hist.crossed)

\* C7: no trigger is missed when Reset runs concurrently with Increment: in a
\* quiescent state Count() >= threshold implies an invocation since the last
\* Reset, and there is never more than one.
C7_NoMissedTrigger ==
    /\ [](Quiescent /\ wcCallback /\ Count >= Threshold => hist.fires >= 1)
    /\ [](hist.fires <= 1)

\* C8 as stated: with nothing in progress, Count() is the number of Increment
\* calls that returned since the most recent Reset returned.
C8_CountIsCompletedSinceReset ==
    [](Quiescent => Count = hist.returned)

\* C8 amended: Count() is the number of Increments whose add took effect
\* after the zeroing store of the most recent Reset, returned or still in
\* flight; the zeroing leaves 0 with or without a callback, an add is never
\* lost and the value is never negative.
C8_CountIsAddsSinceZeroing ==
    /\ [](Count = hist.counted + Cardinality(InFlight))
    /\ [](Count >= 0)
    /\ [][\A t \in Threads :
            wc[t].pc = "StoreCount" /\ wc'[t].pc = "StoreFired" => Count' = 0]_vars
    /\ [][\A t \in Threads :
            wc[t].pc = "idle" /\ wc'[t].op = "Increment" => Count' = Count + 1]_vars

\* an Increment overlapped a Reset, and both have returned
C8_Witness ==
    /\ Quiescent
    /\ hist.resets > 0
    /\ Count > 0
    /\ Count # hist.returned


\* goroutine t invokes the registered callback in this step
InvokesCallback(t) == wc[t].pc = "Callback" /\ wc'[t].pc = "Unlock" /\ wcCallback

\* C34: the callback is invoked only by an Increment whose add came after the
\* zeroing of the latest Reset, and at every invocation the count accumulated
\* since that Reset is at least the threshold.
C34_CallbackOnlyInOwnCycle ==
    [][\A t \in Threads :
          InvokesCallback(t) => ~wc[t].stale /\ Count >= Threshold]_vars

\* goroutine t is inside c.callback()
InsideCallback(t) == wc[t].pc \in {"Callback", "Nested"}

\* C36: the callback runs with the counter's mutex held by its goroutine: no
\* Reset is past its Lock while a callback runs, so a Reset of another
\* goroutine completes only after the callback has returned; an Increment
\* called from inside the callback finds fired set, returns after its test and
\* invokes nothing; a Reset called from inside the callback finds the mutex
\* held by its own goroutine, never gets it, and mutex and callback stay as
\* they are from then on.
C36_CallbackRunsUnderMutex ==
    /\ [](\A t \in Threads :
            InsideCallback(t) =>
                wcMu = t /\ \A u \in Threads : wc[u].op # "Reset")
    /\ [](wc[Inner].op = "Increment" => fired /\ wc[Inner].pc = "Check")
    /\ [][wc[Inner].op = "Increment" /\ wc'[Inner] # wc[Inner] =>
            wc'[Inner] = WCIdle /\ hist'.invoked = hist.invoked]_vars
    /\ [](hist.fires <= 1)
    /\ [](wc[Inner].op = "ResetCall" =>
            wcMu \in CounterThreads /\ wc[wcMu].pc = "Nested")
    /\ [][wc[Inner].op = "ResetCall" =>
            /\ wc'[Inner] = wc[Inner]
            /\ wcMu' = wcMu
            /\ wc'[wcMu].pc = "Nested"]_vars

\* the callback has called Reset, which waits for the mutex its own goroutine
\* holds; the count is at its highest, every other Increment has returned and
\* no callback invocation has returned
C36_Witness ==
    /\ wc[Inner].op = "ResetCall"
    /\ count = MaxCount
    /\ hist.returned = MaxCount - 1
    /\ hist.invoked = 0
    /\ \A t \in CounterThreads : wc[t].pc \in {"idle", "Nested"}

(* ------------------------------ WarmLock claims ------------------------ *)

\* the goroutines that own the exclusive lock: from the acquisition inside
\* Lock until the release inside Unlock
Writers == {t \in Threads : lk[t].held = "write"}

\* the goroutines that hold a read lock: from the acquisition inside RLock
\* until the release inside RUnlock
Readers == {t \in Threads : lk[t].held = "read"}

\* C9: reader/writer exclusion: at most one owner of the exclusive lock, no
\* reader holds while there is one, and no Lock acquires while a reader holds.
C9_ReaderWriterExclusion ==
    /\ [](Cardinality(Writers) <= 1)
    /\ [](Writers # {} => Readers = {})
    /\ [][\A t \in Threads :
            lk[t].held # "write" /\ lk'[t].held = "write" => Readers = {}]_vars
    /\ [][\A t \in Threads :
            lk[t].held # "read" /\ lk'[t].held = "read" => Writers = {}]_vars

\* two readers hold the lock together while a Lock call, announced, waits for them
C9_Witness ==
    /\ Cardinality(Readers) >= 2
    /\ \E w \in Threads : lk[w].pc = "LockSem"
    /\ Writers = {}

\* C10 as stated: an RLock call that started while a Lock call was waiting
\* (announced to the readers and without the lock yet) holds the lock only
\* after that Lock call has acquired and released.
C10_ReadersQueueBehindWaitingWriter ==
    [](\A t \in Threads : lk[t].held = "read" => lkHist.announced[t] = {})

\* C10 amended: once a Lock call has announced itself every RLock call that
\* starts goes to sleep, and until that Lock call acquires no more RLock calls
\* acquire than were asleep at the announcement; the readers the writer waits
\* for are the ones counted then (those holding, those asleep then, those
\* leaving), and it is woken when the last of them has left.
C10_BoundedOvertaking ==
    /\ [][\A t \in Threads :
            lk[t].pc = "idle" /\ lk'[t].pc \in {"RSem", "RMetrics"}
            /\ (\E w \in Threads : LockAnnounced(w))
            => lk'[t].pc = "RSem"]_vars
    /\ []((\E w \in Threads : LockAnnounced(w)) => lkHist.passed <= lkHist.owed)
    /\ [](\A w \in Threads : lk[w].pc = "LockSem" =>
            /\ readerWait = Cardinality(Readers) + (lkHist.owed - lkHist.passed)
                            + Cardinality({u \in Threads : lk[u].pc = "RUnlockSlow"})
            /\ writerSem = IF readerWait = 0 THEN 1 ELSE 0)

\* an RLock call that began after a Lock call's announcement has acquired in
\* the place of one that was asleep, the Lock call still waiting
C10_Witness ==
    \E t, w \in Threads :
        /\ lk[t].held = "read"
        /\ w \in lkHist.announced[t]
        /\ lk[w].pc = "LockSem"
        /\ lkHist.passed = lkHist.owed

\* goroutine t is inside RLock or Lock and does not own the lock yet
Acquiring(t) == lk[t].pc \in {"RSem", "LockW", "Announce", "LockWait", "LockSem"}

\* no goroutine holds the lock, waits for it or is inside one of its calls
LockAtRest == \A t \in Threads : lk[t] = LKIdle

\* C11: WarmLock is deadlock-free. With goroutines that release what they
\* acquire and a fair scheduler, every RLock call and every Lock call that has
\* started ends up owning the lock, and the lock comes to rest again and
\* again: no goroutine holds it, waits for it or is inside a call.
C11_DeadlockFree ==
    /\ \A t \in LockThreads : Acquiring(t) ~> lk[t].held # "none"
    /\ []<>LockAtRest

\* a reader asleep behind a writer that itself waits, while the calls of the
\* scenario are used up: the sleepers depend on the releases alone
C11_Witness ==
    \E t, w, u \in LockThreads :
        /\ lk[t].pc = "RSem"
        /\ lk[w].pc = "LockSem"
        /\ lk[u].held = "read"
        /\ lkHist.calls = MaxLockCalls


\* the goroutines that hold the lock for reading, for writing
ReadHolders == {t \in Threads : lk[t].held = "read"}

WriteHolders == {t \in Threads : lk[t].held = "write"}

\* the RLock calls between their count update and their return, the update
\* made after the latest ResetMetrics
CountedInFlight == {t \in Threads : lk[t].pc = "RActive"} \ lkHist.early

\* what the claim says of CurrentActiveReadLocks
ActiveReadLocksSound ==
    /\ Metrics.CurrentActiveReadLocks >= 0
    /\ Metrics.CurrentActiveReadLocks <= Cardinality(ReadHolders)
    /\ WriteHolders # {} => Metrics.CurrentActiveReadLocks = 0

OccurrencesIn(r, dir) ==
    Cardinality({p \in UNION {{<<n, i>> : i \in 1..Len(dir[n])} : n \in DOMAIN dir} :
                   dir[p[1]][p[2]] = r})

OccurrencesRotated(r) ==
    Cardinality({p \in UNION {{<<k, i>> : i \in 1..Len(rotHist.produced[k].content)} :
                                k \in DOMAIN rotHist.produced} :
                   rotHist.produced[p[1]].content[p[2]] = r})

\* FlushAndRotate has done its work and is about to release the mutex
FlushAndRotateDone == fw[Flusher].op = "FlushAndRotate" /\ fw[Flusher].pc = "Unlock"

\* the records some rotation has moved out of the hot directory
Rotated == UNION {RecordsOf(rotHist.produced[k].content) : k \in DOMAIN rotHist.produced}

\* no later rotation moved a file of the same name as the k-th
NotOverwritten(k) ==
    \A j \in DOMAIN rotHist.produced : j > k => rotHist.produced[j].name # rotHist.produced[k].name

\* C14, as stated: every record written via WriteLine, once a rotation has
\* moved its hot file, appears exactly once in exactly one warm file, whatever
\* the sequence of WriteLine, MatchComplete and FlushAndRotate calls, two
\* rotations within the same one-second tick included.
C14_NoRecordLost ==
    \A r \in Rotated : OccurrencesIn(r, warm) = 1

\* C14, amended: every record whose WriteLine has returned was written exactly
\* once into exactly one file, no record appears in two warm files, and the
\* file a rotation produced is in warm with exactly its records unless a later
\* rotation moved a hot file of the same name (opened within the same
\* one-second tick), which replaces it.
C14_NoRecordLostBarringCollision ==
    /\ \A r \in rotHist.returned :
          OccurrencesIn(r, hot) + OccurrencesRotated(r) = 1
    /\ \A r \in 1..rotHist.begun : OccurrencesIn(r, warm) <= 1
    /\ \A k \in DOMAIN rotHist.produced :
          NotOverwritten(k) =>
              /\ rotHist.produced[k].name \in DOMAIN warm
              /\ warm[rotHist.produced[k].name] = rotHist.produced[k].content

\* two rotations in different seconds have produced two warm files
C14_Witness ==
    /\ Len(rotHist.produced) = 2
    /\ rotHist.produced[1].name # rotHist.produced[2].name
    /\ Cardinality(DOMAIN warm) = 2

\* C15: FlushAndRotate returns false iff no record has been written since the
\* previous rotation; then warm is as it was and the counter is not
\* incremented; when it returns true warm has gained the hot file under its own
\* name with its records, and the counter is incremented once; either way
\* exactly one hot file, fresh and empty, is open afterwards.
C15_FlushAndRotateResult ==
    [][/\ (fw[Flusher].pc = "Unlock" /\ fw'[Flusher].pc = "Returned") =>
            /\ fw[Flusher].ret <=> rotHist.last.since > 0
            /\ ~fw[Flusher].ret => warm' = rotHist.last.warmBefore
            /\ fw[Flusher].ret =>
                  /\ rotHist.last.content # <<>>
                  /\ warm' = Put(rotHist.last.warmBefore, rotHist.last.name, rotHist.last.content)
            /\ \A n \in DOMAIN warm' : warm'[n] # <<>>
            /\ DOMAIN hot' = {rot'.file}
            /\ hot'[rot'.file] = <<>>
       /\ (fw[Flusher].pc = "Returned" /\ fw'[Flusher].pc = "idle") =>
            rotHist'.increments = rotHist.increments + (IF fw[Flusher].ret THEN 1 ELSE 0)
      ]_vars

\* FlushAndRotate has returned false although records were written and rotated
\* before it
C15_Witness ==
    /\ fw[Flusher].pc = "Returned"
    /\ ~fw[Flusher].ret
    /\ rotHist.produced # <<>>
    /\ rotHist.increments = 0

\* C16: WriteLine and FlushAndRotate are atomic to each other: every record
\* whose WriteLine has returned is whole in exactly one file; when
\* FlushAndRotate returns, the file it moved is the hot file as it found it on
\* taking the mutex, the records whose WriteLine had returned before the call
\* are out of hot and in a warm file no later than that one, and no record
\* whose WriteLine began after it took the mutex is in that file.
C16_WriteAndRotateAtomic ==
    /\ \A r \in rotHist.returned :
          OccurrencesIn(r, hot) + OccurrencesRotated(r) = 1
    /\ \A r \in 1..rotHist.begun :
          OccurrencesIn(r, hot) + OccurrencesRotated(r) <= 1
    /\ FlushAndRotateDone =>
          /\ rotHist.last.moved = rotHist.last.content
          /\ \A r \in rotHist.seen :
                /\ r \in Rotated
                /\ r \notin RecordsIn(hot)
          /\ \A r \in RecordsOf(rotHist.last.moved) : r <= rotHist.last.begun

\* FlushAndRotate has moved a file with a record that was complete before the
\* call, while a WriteLine that began before it took the mutex still waits
C16_Witness ==
    /\ FlushAndRotateDone
    /\ fw[Flusher].ret
    /\ rotHist.seen \cap RecordsOf(rotHist.last.moved) # {}
    /\ \E t \in RotWriters :
          /\ fw[t].op = "WriteLine" /\ fw[t].pc = "Lock"
          /\ fw[t].rec <= rotHist.last.begun

(* --------------------- claims: the warm directory ---------------------- *)

\* the reducer has finished archiving and has not called Unlock yet
ReduceFinished(t) == job[t].stage = "Unlock" /\ HoldsLock(t)

Originals == JsonlFiles(arHist.originals)

\* the original n is still in warm, as it was / is complete in cold
InWarm(n) == n \in DOMAIN warm /\ warm[n] = arHist.originals[n]

InCold(n) == GzName(n) \in DOMAIN cold /\ HoldsContent(cold[GzName(n)], arHist.originals[n])

\* ArchiveWarmToCold has returned
ArchiveReturned(ret) == arHist.calls > 0 /\ ar.pc = "idle" /\ ar.ret = ret

\* C17: for every file the archiver handles, outside a call the cold file
\* <name>.gz exists only if the original was completely compressed into it;
\* the warm original is gone only if the cold file's write and close both
\* succeeded; and in no state, whatever fails, is an original's content absent
\* from both warm and a complete cold file.
C17_ColdOnlyAfterSuccess ==
    \A n \in Originals :
        /\ ar.pc = "idle" /\ GzName(n) \in DOMAIN cold => InCold(n)
        /\ n \notin DOMAIN warm => n \notin arHist.closeFailed
        /\ InWarm(n) \/ InCold(n)

C19_LosslessRoundTrip ==
    ArchiveReturned("nil") =>
        /\ JsonlFiles(warm) = {}
        /\ DOMAIN cold = DOMAIN arHist.coldBefore \cup {GzName(n) : n \in Originals}
        /\ \A n \in Originals : InCold(n)
        /\ ar.archived = Cardinality(Originals)
        /\ \A n \in DOMAIN arHist.originals \ Originals :
              n \in DOMAIN warm /\ warm[n] = arHist.originals[n]
        /\ DOMAIN warm = DOMAIN arHist.originals \ Originals

(* ---------------------------- claims: TursoPusher ---------------------- *)

IsPrefix(s, t) == Len(s) <= Len(t) /\ SubSeq(t, 1, Len(s)) = s

\* the bundles the workers have taken from the queue and not yet passed on
Taken == {wk[w].data : w \in {v \in DOMAIN wk : wk[v].pc = "push"}}

InFlightPushes == {w \in DOMAIN wk : wk[w].pc = "pushing"}

\* C21: at most one PushAggData call is in flight: however many Start calls
\* are made there is exactly one worker once Start has set `started`, none
\* before, and a worker calls PushAggData only when no call is in flight.
C21_OnePushInFlight ==
    /\ [](Len(wk) = IF tp.started THEN 1 ELSE 0)
    /\ [](Cardinality(InFlightPushes) <= 1)
    /\ [][Len(tpHist.delivered') > Len(tpHist.delivered) => InFlightPushes = {}]_vars

\* a Start call holds the mutex and finds `started` set, while the worker is
\* inside its second PushAggData call
C21_Witness ==
    /\ \E t \in PushCallers : pt[t].op = "Start" /\ pt[t].pc = "Started" /\ tp.started
    /\ Len(tpHist.delivered) >= 2
    /\ InFlightPushes # {}

\* a Wait call that found the pusher started returns in this step
WaitReturns == \E t \in PushCallers : pt[t].pc = "WgWait" /\ pt'[t].pc = "idle"

\* C22: when Wait returns, every bundle for which Push returned nil has been
\* passed to PushAggData exactly once, whether the context was cancelled
\* before or after the bundle was accepted.
C22_AllDeliveredWhenWaitReturns ==
    [][WaitReturns => tpHist.delivered = tpHist.accepted]_vars

\* the Push call of goroutine t ends in this step
PushEnds(t) == pt[t].op = "Push" /\ pt'[t] # pt[t]

\* Push returns nil: the bundle has entered the queue
PushEnqueued(t) ==
    /\ pt'[t].pc = "idle"
    /\ tp'.pushChan = Append(tp.pushChan, pt[t].data)
    /\ tpHist'.accepted = Append(tpHist.accepted, pt[t].data)

\* Push returns ctx.Err(): the context is done and the queue is as it was
PushRefused(t) ==
    /\ pt'[t].pc = "idle"
    /\ ctxDone
    /\ tp'.pushChan = tp.pushChan /\ tpHist'.accepted = tpHist.accepted

\* C23: a Push call ends in one of two ways, the bundle enqueued and nil
\* returned, or the context's error returned and nothing enqueued; while the
\* context is live it ends only when the queue has room, and it does not wait
\* for PushAggData.
C23_PushTwoOutcomes ==
    [][\A t \in PushCallers :
          PushEnds(t) =>
              /\ PushEnqueued(t) \/ PushRefused(t)
              /\ ~ctxDone => Len(tp.pushChan) < BufferSize
              /\ tpHist'.delivered = tpHist.delivered]_vars

\* a Wait call that holds the mutex finds the pusher not started
WaitNotStarted(t) == pt[t].op = "Wait" /\ pt[t].pc = "Check" /\ ~tp.started

\* C38: no sequence of Start, Push and Wait calls panics: the queue is never
\* closed a second time and never sent to once closed; and a Wait that finds
\* the pusher not started returns at once and leaves the queue open.
C38_QueueClosedOnceNeverSentAfter ==
    /\ [](\A t \in PushCallers : pt[t].pc # "panic")
    /\ [](~tpHist.panicked)
    /\ [][\A t \in PushCallers :
            WaitNotStarted(t) /\ pt'[t] # pt[t] =>
                pt'[t].pc = "idle" /\ tp'.closed = tp.closed]_vars

\* the part of C38 about a pusher that was never started, on its own
WaitBeforeStartLeavesQueueOpen ==
    /\ [][\A t \in PushCallers :
            WaitNotStarted(t) /\ pt'[t] # pt[t] =>
                pt'[t].pc = "idle" /\ tp'.closed = tp.closed]_vars
    /\ [](~tp.started => ~tp.closed)

(* ---------------------------- claims: the sink ------------------------- *)

\* PushAggData commits in this step
Commits == sk'.pushes = sk.pushes + 1

\* the row of key k in a table or map, zero where the key is absent
RowOr0(table, k) == IF k \in DOMAIN table THEN table[k] ELSE [Wins |-> 0, Matches |-> 0]

\* a row n times over
Times(n, row) == [Wins |-> n * row.Wins, Matches |-> n * row.Matches]

\* C24 as stated: pushing the same AggData a second time leaves the store as
\* the first push left it.
C24_SecondPushChangesNothing ==
    [][Commits /\ sk.pushes >= 1 => db' = db]_vars

\* C24 amended: each committed push adds the AggData's wins and matches to the
\* rows of its keys, so after n pushes a row holds what it held before plus n
\* times the AggData's row; a second push adds no row, and leaves the store as
\* the first push left it only when the AggData has no keys; a failed push
\* changes nothing.
C24_PushAccumulates ==
    /\ [](\A t \in Tables :
            /\ DOMAIN db[t] = DOMAIN sk.prior[t] \cup
                                (IF sk.pushes > 0 THEN DOMAIN agg[t] ELSE {})
            /\ \A k \in DOMAIN db[t] :
                 db[t][k] = Accumulate(RowOr0(sk.prior[t], k),
                                       Times(sk.pushes, RowOr0(agg[t], k))))
    /\ [][Commits /\ sk.pushes >= 1 =>
            /\ \A t \in Tables : DOMAIN db'[t] = DOMAIN db[t]
            /\ db' = db <=> agg = EmptyDB]_vars
    /\ [][~Commits => db' = db]_vars

\* the AggData has been pushed twice onto a row that existed before
C24_Witness ==
    /\ sk.pushes = 2
    /\ \E k \in DOMAIN agg["champion_stats"] \cap DOMAIN sk.prior["champion_stats"] :
          db["champion_stats"][k].Matches
              = sk.prior["champion_stats"][k].Matches + 2 * agg["champion_stats"][k].Matches

(* ------------------------------ session claims ------------------------- *)

\* the stages of the reduce procedure
ReduceStages ==
    {"Flush", "Lock", "Aggregate", "Archive", "Unlock", "ToPushing", "Push", "Reset", "ToNext"}

\* the trigger goroutines that have won TryTransitionToReducing and not yet
\* handed the reduce over
PendingWinners ==
    {t \in Triggers : \/ sm[t].op = "Try" /\ sm[t].pc = "Notify"
                      \/ sm[t].pc = "idle" /\ sm[t].ret = "true"}

\* the last transition of the reduce (step 9) has stored its target
ReduceDone ==
    /\ orch.stage = "ToNext"
    /\ \/ sm[Orch].pc = "Notify"
       \/ sm[Orch].pc = "idle" /\ sm[Orch].ret = "nil"

\* the orchestrator is inside a reduce that has not yet left PUSHING
ReduceRunning == orch.stage \in ReduceStages /\ ~ReduceDone

\* reduces won, requested or running
InProgress ==
    Cardinality(PendingWinners) + (IF orch.req THEN 1 ELSE 0)
    + (IF ReduceRunning THEN 1 ELSE 0)

\* goroutine t wins TryTransitionToReducing in this step
Wins(t) == sm[t].op = "Try" /\ sm[t].pc = "Check" /\ sm'[t].pc = "Notify"

\* C1: at most one reduce is in progress: a reduce starts only on the request
\* of a caller that won TryTransitionToReducing, nobody wins while a reduce is
\* won, requested or running, every REDUCING interval belongs to exactly one
\* reduce, and the reduce goes REDUCING -> PUSHING and then on.
C1_OneReduceAtATime ==
    /\ [](InProgress <= 1)
    /\ [](state = StateReducing => InProgress = 1)
    /\ [][orch.stage = "idle" /\ orch'.stage = "Flush"
            => orch.req /\ state = StateReducing /\ InProgress' = 1]_vars
    /\ [][\A t \in Threads : Wins(t) => InProgress = 0 /\ state = StateCollecting]_vars
    /\ [][state # StateReducing /\ state' = StateReducing
            => \E t \in Triggers : Wins(t)]_vars
    /\ [](orch.stage \in {"Flush", "Lock", "Aggregate", "Archive", "Unlock"}
            => state = StateReducing)
    /\ [](orch.stage \in {"Push", "Reset"} => state = StatePushing)
    /\ [](ReduceRunning => state \in {StateReducing, StatePushing})
    /\ [](orch.stage # "failed")

\* after a complete reduce two trigger sources have raced again: one has won,
\* the other has been refused
C1_Witness ==
    /\ orch.resetsSeen >= 1
    /\ state = StateReducing
    /\ \E t, u \in Triggers :
        /\ sm[t].pc = "idle" /\ sm[t].ret = "true"
        /\ sm[u].pc = "idle" /\ sm[u].ret = "false"

\* the state leaves PUSHING in this step
LeavesPushing == state = StatePushing /\ state' # StatePushing

\* step 9 of the reduce reads the key-expiry latch and calls TransitionTo
Step9Call == orch.stage = "ToNext" /\ sm[Orch].pc = "idle" /\ sm'[Orch].pc = "Load"

HandlerReturns(ret) ==
    /\ trig[ErrorHandler] # "none" /\ trig'[ErrorHandler] = "none"
    /\ sm[ErrorHandler].ret = ret

\* the handler of an error of another kind finishes in this step
HandlerRetries ==
    trig[ErrorHandler] = "networkError" /\ trig'[ErrorHandler] = "none"

\* C33: only key-expiry errors request a reduce. The handler of an error of
\* another kind never enters the state machine and finishes without changing
\* the state, the request or the latch; only the two key-expiry errors reach
\* TryTransitionToReducing. The state leaves COLLECTING only for REDUCING, by
\* a winning TryTransitionToReducing. When the handler of a key-expiry error
\* wins, the state is REDUCING and exactly one reduce is requested (none was
\* requested or running before); when it is refused it requests nothing, and
\* if the error had been received in COLLECTING the machine has in the
\* meantime been moved to REDUCING by another trigger (it is in a reduce, or
\* a reduce has completed since). A reduce starts only on such a request.
C33_OnlyKeyExpiryRequestsReduce ==
    /\ [](trig[ErrorHandler] = "networkError" => sm[ErrorHandler] = IdleFrame)
    /\ [][HandlerRetries => UNCHANGED <<state, orch, sm>>]_vars
    /\ [][trig[ErrorHandler] = "none" /\ trig'[ErrorHandler] = "networkError"
            => orch'.keyExpired = orch.keyExpired]_vars
    /\ [][Wins(ErrorHandler) =>
            trig[ErrorHandler] \in {"ErrAPIKeyExpired", "ErrAPIKeyForbidden"}]_vars
    /\ [][state = StateCollecting /\ state' # StateCollecting =>
            state' = StateReducing /\ \E t \in Triggers : Wins(t)]_vars
    /\ [][HandlerReturns("true") =>
            /\ state = StateReducing
            /\ ~orch.req /\ orch'.req
            /\ InProgress = 1 /\ InProgress' = 1]_vars
    /\ [][HandlerReturns("false") =>
            /\ orch'.req = orch.req
            /\ orch.errAt = StateCollecting =>
                 \/ state \in {StateReducing, StatePushing}
                 \/ orch.resetsSeen > orch.errSeen]_vars
    /\ [][orch.stage = "idle" /\ orch'.stage = "Flush" =>
            orch.req /\ ~orch'.req /\ state = StateReducing]_vars

\* a 403 received in COLLECTING has moved the machine to REDUCING: its handler
\* holds the true of TryTransitionToReducing, in a session that has already
\* completed a reduce
C33_Witness ==
    /\ trig[ErrorHandler] = "ErrAPIKeyForbidden"
    /\ sm[ErrorHandler].pc = "idle" /\ sm[ErrorHandler].ret = "true"
    /\ orch.errAt = StateCollecting
    /\ state = StateReducing
    /\ orch.resetsSeen >= 1

(* ------------------------- claims: the threshold trigger ---------------- *)

\* C35: no threshold trigger is lost: whenever the machine is in COLLECTING
\* and the count is at or above the threshold, the machine eventually enters
\* REDUCING.
C35_NoThresholdTriggerLost ==
    (state = StateCollecting /\ count >= Threshold) ~> (state = StateReducing)

\* a callback that begins with the machine in COLLECTING does lead to REDUCING
CallbackInCollectingReduces ==
    (wc[Rotation].pc = "Callback" /\ sm[Rotation] = IdleFrame
        /\ state = StateCollecting /\ orch.stage = "idle") ~> (state = StateReducing)

\* the trigger that is lost: the machine is back in COLLECTING after a
\* reduce, the count is at the threshold, and the callback of this cycle has
\* already fired and been refused
TriggerLost ==
    /\ state = StateCollecting /\ orch.stage = "idle" /\ ~orch.req
    /\ count >= Threshold /\ fired
    /\ \A t \in Threads : Resting(t)

(* ------------------------- claims: key-expiry flow ---------------------- *)

\* C26: while candidates are polled and validated the state stays
\* WAITING_FOR_KEY; a candidate that fails validation changes neither the
\* state nor the session and the loop polls again, however many candidates
\* fail; the state leaves WAITING_FOR_KEY only for FRESH_RESTART, and only
\* when the latest candidate is the one the validator accepts.
C26_InvalidKeyKeepsWaiting ==
    /\ [](orch.stage \in {"Poll", "Validate"} => state = StateWaitingForKey)
    /\ [][orch.stage = "Validate" /\ kp.candidate # "RGAPI-new-valid-key" =>
            /\ orch'.stage \in {"Validate", "Poll"}
            /\ state' = StateWaitingForKey
            /\ UNCHANGED <<sess, count, fired>>]_vars
    /\ [][state = StateWaitingForKey /\ state' # StateWaitingForKey =>
            /\ state' = StateFreshRestart
            /\ kp.candidate = "RGAPI-new-valid-key"]_vars

\* a first candidate has failed validation, the second has been validated and
\* the machine is in FRESH_RESTART
C26_Witness ==
    /\ state = StateFreshRestart
    /\ kp.tried = 2
    /\ kp.candidate = "RGAPI-new-valid-key"

\* the (from, to) pair of this step's state change
Moves(from, to) == state = from /\ state' = to

\* C27: after a validated key the state changes are WAITING_FOR_KEY ->
\* FRESH_RESTART -> STARTUP -> COLLECTING, and at the moment the machine
\* enters COLLECTING, and from then on, both bloom filters are empty, the
\* producer queue holds exactly the top seed, the counter is 0 and its
\* callback is armed, whatever the filters, the queue and the counter held
\* when the key expired.
C27_FreshRestartClearsSession ==
    /\ [][state' # state =>
            \/ Moves(StateWaitingForKey, StateFreshRestart)
            \/ Moves(StateFreshRestart, StateStartup)
            \/ Moves(StateStartup, StateCollecting)]_vars
    /\ [][state' = StateCollecting =>
            /\ sess'.matchBloom = {} /\ sess'.puuidBloom = {}
            /\ sess'.queue = <<"Challenger-PUUID-1">>
            /\ count' = 0 /\ ~fired' /\ wcCallback'
            /\ wc'[Orch].pc = "idle"]_vars

\* the machine is back in COLLECTING after a restart from a session with both
\* filters filled, two other players queued and the counter at its threshold
C27_Witness ==
    /\ state = StateCollecting
    /\ orch.stage = "idle"
    /\ orch.resetsSeen = 1
    /\ kp.left.sess.matchBloom = MatchIds /\ kp.left.sess.puuidBloom = Puuids
    /\ kp.left.sess.queue = <<"player1", "player1">>
    /\ kp.left.count >= Threshold
    /\ sess.queue = <<TopSeed>>
    /\ count = 0

(* ------------------------- claims: the reduce procedure ----------------- *)

\* the steps of the reduce in the order of the procedure
StepOrder ==
    <<"Flush", "Lock", "Aggregate", "Archive", "Unlock", "ToPushing", "Push", "Reset", "ToNext">>

\* the reduce moves from one step to the next one of the procedure
NextStep ==
    \/ \E i \in 1..(Len(StepOrder) - 1) :
          orch.stage = StepOrder[i] /\ orch'.stage = StepOrder[i + 1]
    \/ orch.stage = "ToNext" /\ orch'.stage = "idle"

\* the bundle of the reduce in progress is with the worker, on its way to or
\* inside PushAggData
OwnBundleAtSink ==
    \E w \in DOMAIN wk :
        wk[w].pc \in {"push", "pushing"} /\ wk[w].data = orch.resetsSeen + 1

SMReturns(t) == sm[t].pc # "idle" /\ sm'[t].pc = "idle"

\* the registered callback is invoked in this step: two successive invocations
\* never carry the same pair, since the second starts where the first ended
CallbackInvoked == cbLast' # cbLast

\* C29: with the callback registered, a call that changed the state invokes
\* it once, in the step in which it returns, with the state it found and the
\* state it stored; a rejected call and a step that is not such a return do
\* not invoke it; between the store and the invocation the caller holds sm.mu
\* and the state stays what it stored, so every invocation reports the state
\* of that moment and starts from the state the previous invocation ended in.
C29_CallbackOncePerTransition ==
    /\ [][\A t \in Callers :
            SMReturns(t) =>
                IF sm'[t].ret \in {"nil", "true"} /\ callback
                THEN /\ sm[t].pc = "Notify"
                     /\ CallbackInvoked
                     /\ cbLast' = <<sm[t].from, sm[t].to>>
                ELSE ~CallbackInvoked]_vars
    /\ [][CallbackInvoked =>
            /\ \E t \in Callers : SMReturns(t) /\ sm'[t].ret \in {"nil", "true"}
            /\ state = cbLast'[2] /\ state' = state
            /\ cbLast # <<>> => cbLast'[1] = cbLast[2]]_vars
    /\ [][state' # state =>
            \E t \in Callers :
                /\ smMu = t
                /\ sm'[t].pc = "Notify"
                /\ <<sm'[t].from, sm'[t].to>> = <<state, state'>>]_vars
    /\ [](\A t \in Callers : sm[t].pc = "Notify" => smMu = t /\ state = sm[t].to)

\* C29 witness: the callback has been invoked for COLLECTING -> REDUCING and then
\* for REDUCING -> PUSHING; one caller's TryTransitionToReducing was refused
\* and the other's TransitionTo succeeded
C29_Witness ==
    /\ callback
    /\ cbLast = <<StateReducing, StatePushing>>
    /\ state = StatePushing
    /\ \E t \in Callers : sm[t].pc = "idle" /\ sm[t].ret = "false"
    /\ \E t \in Callers : sm[t].pc = "idle" /\ sm[t].ret = "nil"


(* ------------------------- claims: WaitForState ------------------------- *)

\* the call of WaitForState returns ret in this step
WFReturns(ret) == wt.pc # "idle" /\ wt'.pc = "idle" /\ wt'.ret = ret

\* a true is returned at a check that found the target, a false with the
\* deadline passed, and a check that finds the target returns true
WaitForStateSound ==
    /\ [][WFReturns("true") => wt.pc = "Check" /\ state = wt.target]_vars
    /\ [][WFReturns("false") => clock >= wt.deadline]_vars
    /\ [][wt.pc = "Check" /\ state = wt.target /\ wt' # wt => WFReturns("true")]_vars

\* the call is in progress, the deadline is ahead and the machine is at the
\* target s
AtTargetInTime(s) ==
    /\ wt.pc # "idle"
    /\ wt.target = s
    /\ state = s
    /\ clock < wt.deadline

\* C30: WaitForState returns true only at a check that found the target and
\* false only with the deadline passed; a check that finds the machine at the
\* target returns true; and when the machine is at the target before the
\* deadline, during the call, then the call returns true unless the machine
\* leaves the target again.
C30_WaitForStateContract ==
    /\ WaitForStateSound
    /\ \A s \in States :
          AtTargetInTime(s) ~> (wt.ret = "true" \/ state # s)

\* the same with "the call returns" in the place of "returns true"
WaitForStateEnds ==
    \A s \in States : AtTargetInTime(s) ~> (wt.pc = "idle" \/ state # s)

\* the call never returns false at a moment the machine is at the target
NeverFalseAtTarget ==
    [][WFReturns("false") => state # wt.target]_vars


\* a Broadcast for the latest state change is still to come: a goroutine has
\* stored the state and has not yet reached sm.cond.Broadcast()
BroadcastPending == \E t \in Threads : sm[t].pc = "Notify"

\* the waiter sleeps inside cond.Wait() with the machine at its target and no
\* Broadcast of a transition to come: only its timer can wake it
SleepsAtTarget ==
    /\ wt.pc = "Parked"
    /\ ~wt.notified
    /\ state = wt.target
    /\ ~BroadcastPending

\* C39: WaitForState never loses a wakeup: the waiter is never asleep on the
\* condition variable with the machine at its target and the Broadcast of the
\* transition already made; the Broadcast of a transition to the target made
\* while the call is past its state check wakes the waiter.
C39_NoLostWakeup ==
    /\ [](~SleepsAtTarget)
    /\ [][\A t \in Threads :
            (/\ sm[t].pc = "Notify" /\ sm'[t].pc = "idle"
             /\ state = wt.target
             /\ wt.pc \in {"Until", "Wait", "Parked"}) =>
                wt'.pc = "Parked" /\ wt'.notified]_vars

(* ------------------------- claims: the aggregator ----------------------- *)

\* the lines of c that count as participants: JSON with a position
Participants(c) ==
    {i \in 1..Len(c) : c[i].form = "json" /\ c[i].TeamPosition # ""}

\* the participants of c that share match id and position with line i
SameRole(c, i) ==
    {j \in Participants(c) : /\ c[j].MatchID = c[i].MatchID
                             /\ c[j].TeamPosition = c[i].TeamPosition}

\* the directed pairs <<i, j>> of lines of c that are the two participants
\* of one role of one match, one a winner and one a loser
Opponents(c) ==
    {p \in Participants(c) \X Participants(c) :
        /\ p[1] # p[2]
        /\ SameRole(c, p[1]) = {p[1], p[2]}
        /\ c[p[1]].Win # c[p[2]].Win}

\* the key of the pair <<i, j>>: champion of i against champion of j
DirectedKey(c, p) ==
    [Patch |-> normalizePatch(c[IF p[1] < p[2] THEN p[1] ELSE p[2]].GameVersion),
     ChampionID |-> c[p[1]].ChampionID,
     TeamPosition |-> c[p[1]].TeamPosition,
     EnemyChampionID |-> c[p[2]].ChampionID]

\* the second pass over the file in progress has visited every role
SecondPassDone == ag.pc = "Matchups" /\ ag.todo = {}

\* C32: when aggregateFile has finished its second pass, the matchup map of
\* the file has exactly the directed keys of the roles that have, within one
\* match id, exactly two participants with different outcomes; each key has
\* one match per directed pair that carries it and one win per such pair
\* whose first participant won. A role with the same outcome on both
\* records, or with one or three or more records, contributes nothing.
C32_MatchupsFromOpposingPairs ==
    SecondPassDone =>
        LET c == warm[FilePath]
        IN /\ DOMAIN ag.file.matchup = {DirectedKey(c, p) : p \in Opponents(c)}
           /\ \A k \in DOMAIN ag.file.matchup :
                /\ ag.file.matchup[k].Matches =
                     Cardinality({p \in Opponents(c) : DirectedKey(c, p) = k})
                /\ ag.file.matchup[k].Wins =
                     Cardinality({p \in Opponents(c) : DirectedKey(c, p) = k /\ c[p[1]].Win})

\* a file of three records has been aggregated: MIDDLE of one match has a
\* winner and a loser and gives the two directed keys, the third record is
\* alone in its role and gives nothing
C32_Witness ==
    /\ SecondPassDone
    /\ Len(warm[FilePath]) = 3
    /\ Cardinality(Participants(warm[FilePath])) = 3
    /\ Cardinality(Opponents(warm[FilePath])) = 2
    /\ Cardinality(DOMAIN ag.file.matchup) = 2
    /\ \A k \in DOMAIN ag.file.matchup : ag.file.matchup[k].Matches = 1

\* three records of one match carry the same role: nothing is recorded
ThreeInOneRole ==
    /\ SecondPassDone
    /\ \E i \in Participants(warm[FilePath]) :
          Cardinality(SameRole(warm[FilePath], i)) = 3
    /\ ag.file.matchup = NoStats

\* the warm files the aggregator reads to their end: no line of theirs is
\* longer than the scanner's buffer
Scannable(dir) ==
    {n \in JsonlFiles(dir) : \A i \in 1..Len(dir[n]) : dir[n][i].form # "oversize"}

\* the lines of the scannable files that unmarshal
JsonLines(dir) ==
    UNION {{<<n, i>> : i \in {k \in 1..Len(dir[n]) : dir[n][k].form = "json"}} :
             n \in Scannable(dir)}

\* C31: aggregation is deterministic: the bundles that the calls of
\* AggregateWarmFiles return over the same warm files are equal, in whatever
\* order the maps are ranged over: the same keys with the same wins and
\* matches in the four maps, the same FilesProcessed, TotalRecords and
\* DetectedPatch. FilesProcessed is the number of files read to their end
\* and TotalRecords the number of their JSON lines. No step of the
\* aggregator changes a directory.
C31_AggregationDeterministic ==
    /\ [](\A i, j \in DOMAIN ag.runs : ag.runs[i] = ag.runs[j])
    /\ [](\A i \in DOMAIN ag.runs :
            /\ ag.runs[i].FilesProcessed = Cardinality(Scannable(warm))
            /\ ag.runs[i].TotalRecords = Cardinality(JsonLines(warm)))
    /\ [][warm' = warm /\ cold' = cold]_vars

\* two calls have returned; in the first file the second pass had two
\* matches to visit that bear on the same matchup keys (a key has two
\* matches and one win), and both files were merged, the patch being the
\* second file's
C31_Witness ==
    /\ Len(ag.runs) = 2
    /\ ag.runs[2].FilesProcessed = 2
    /\ ag.runs[2].ItemSlotStats # NoStats
    /\ ag.runs[2].DetectedPatch = <<14, 24>>
    /\ \E k \in DOMAIN ag.runs[2].MatchupStats :
          ag.runs[2].MatchupStats[k].Matches = 2 /\ ag.runs[2].MatchupStats[k].Wins = 1

\* the warm files the archiver has removed since its call began
Removed == DOMAIN arHist.originals \ DOMAIN warm

\* C37: aggregate and archive of one reduce cover the same files: every warm
\* file the archiver removes was merged into the bundle of the reduce's
\* AggregateWarmFiles call, and a file that call skipped (it could not be
\* opened or scanned) is not archived.
C37_ArchiveCoversAggregated ==
    /\ Removed \subseteq ag.counted
    /\ ag.skipped \cap Removed = {}

\* every file the archiver removes was one the aggregator had enumerated
ArchivedWereEnumerated ==
    Removed \subseteq {ag.files[i] : i \in 1..Len(ag.files)}

\* a file with a line longer than the scanner's buffer is in cold and no
\* longer in warm, and the bundle of the reduce holds nothing of it
SkippedFileArchived ==
    /\ ar.pc = "idle" /\ ar.ret = "nil"
    /\ \E n \in ag.skipped :
          /\ n \notin DOMAIN warm /\ GzName(n) \in DOMAIN cold
          /\ \E i \in 1..Len(arHist.originals[n]) : arHist.originals[n][i].form = "oversize"
    /\ ag.runs[1].FilesProcessed < Cardinality(Removed)

====
